---- MODULE Spec2Model ----
(***************************************************************************)
(* MiniMixLab: the analysis fallback and beat-synchronous sectioner of     *)
(* backend/processor.py, the time/pitch wrapper, and the arrangement       *)
(* renderer of backend/renderer.py behind backend/main.py.                 *)
(*                                                                         *)
(* Python rebinds a name on every def: of the two definitions of           *)
(* analyze_audio, rubberband_time_pitch and slice_wav in processor.py the  *)
(* later one (lines 112-192) is the one callers import, and is the one     *)
(* modelled here.                                                          *)
(***************************************************************************)
EXTENDS Integers, Sequences, FiniteSets, TLC

(***************************************************************************)
(* Bounds of the model.                                                    *)
(***************************************************************************)
MaxBeats == 30        \* most beats the tracker reports
MaxPeriod == 2        \* longest beat period, in ticks
MaxFirst == 1         \* latest first beat, in ticks
MaxTail == 2          \* most ticks of audio after the last beat
MaxSongSeconds == 100 \* longest buffer given to segment_song, in seconds

(***************************************************************************)
(* Program constants.  Analysis time is counted in ticks of 0.1 s, stored  *)
(* in sub-ticks of 1/k_segments tick so that duration/8 and the four equal *)
(* parts of linspace(0, duration, 5) are exact.                            *)
(***************************************************************************)
MIN_BEATS == 16       \* processor.py:129  len(beat_frames) < 16
PRUNE_GAP == 4        \* processor.py:152  idx - pruned[-1] >= 4
HalfSecond == 5       \* processor.py:165  e - s < 0.5, in ticks
MIN_SONG_BEATS == 4   \* app.py:99         len(beats) < 4
TenSeconds == 100     \* app.py:102        max(10.0, ...), in ticks
k_segments == 8       \* app.py:91         k_segments=8

Sub == k_segments

VARIABLES
    analysis,     \* what the last analysis call was given and returned
    stretch,      \* what the last time/pitch call was given and did
    req,          \* the ArrangeRequest being served by POST /arrange/render
    bin_on_path,  \* whether the Rubber Band binary is on the PATH
    pc,           \* where the handler is
    cursor,       \* the item the current loop is at
    arr,          \* arr, the ArrItems built by arrange_render
    rendered,     \* rendered, the placed buffers of render_mix
    max_end,      \* max_end of render_mix
    mix,          \* mix of render_mix
    data,         \* the intermediate files present in DATA
    sliced,       \* how many times slice_wav opened a source
    applied,      \* per summed item, the frames its crossfade covered
    prenorm,      \* mix as it was when normalization began
    merge,        \* the short-segment merge loop of segment_and_label
    batch,        \* the uploads of POST /analyze/batch and the semaphore SEM
    tmpfiles,     \* two concurrent calls and the intermediate files in DATA
    keycall,      \* a call that produces or compares key strings
    picked,       \* a call of _peak_pick
    labelcall,    \* a call of the labelling passes of segment_and_label
    jobs,         \* JOBS, the build_mix thread and what a client has read
    tempo         \* a call of atempo_chain

renderVars ==
    <<req, bin_on_path, pc, cursor, arr, rendered, max_end, mix, data, sliced, applied, prenorm>>

lateVars == <<labelcall, jobs, tempo>>

otherVars == <<merge, batch, tmpfiles, keycall, picked, lateVars>>

vars == <<analysis, stretch, renderVars, otherVars>>

(***************************************************************************)
(* Helpers.                                                                *)
(***************************************************************************)
Min(a, b) == IF a <= b THEN a ELSE b
Max(a, b) == IF a >= b THEN a ELSE b
Abs(a) == IF a >= 0 THEN a ELSE -a
Clip(x, lo, hi) == Max(lo, Min(x, hi))

RECURSIVE SortedSeq(_)
SortedSeq(S) ==
    IF S = {} THEN <<>>
    ELSE LET m == CHOOSE x \in S : \A y \in S : x <= y
         IN  <<m>> \o SortedSeq(S \ {m})

(***************************************************************************)
(* Section is the record the sectioner builds; processor.py uses the name  *)
(* without defining it, so its shape is taken from the data model.         *)
(***************************************************************************)
Section(label, start, end) == [label |-> label, start |-> start, end |-> end]

\* np.linspace(0, hi, num): num points, exact at both ends
linspace(hi, num) == [i \in 1..num |-> ((i - 1) * hi) \div (num - 1)]

(***************************************************************************)
(* processor.analyze_audio, too-few-beats branch (lines 129-135).          *)
(***************************************************************************)
FallbackLabels == <<"Intro", "Verse", "Chorus", "Bridge">>

FallbackSections_3parts(duration) ==
    LET cuts == linspace(duration, 4)
    IN  [i \in 1..(Len(cuts) - 1) |->
            Section(FallbackLabels[((i - 1) % Len(FallbackLabels)) + 1],
                    cuts[i], cuts[i + 1])]

FallbackSections(duration) ==
    LET cuts == linspace(duration, 5)
    IN  [i \in 1..(Len(cuts) - 1) |->
            Section(FallbackLabels[((i - 1) % Len(FallbackLabels)) + 1],
                    cuts[i], cuts[i + 1])]

(***************************************************************************)
(* processor._choose_min_distance (lines 105-110).                         *)
(***************************************************************************)
_choose_min_distance(n_beats) ==
    LET target_sections == Clip(n_beats \div 32, 5, 12)
        min_bars == Max(6, n_beats \div (4 * target_sections))
    IN  min_bars * 4

(***************************************************************************)
(* scipy find_peaks(nov, distance=d, prominence=...): some set of interior *)
(* indices of nov, any two at least d apart.  nov has one value per        *)
(* beat-synchronous frame.                                                 *)
(***************************************************************************)
PeakSets(n, d) ==
    {{}} \cup {{p} : p \in 1..(n - 1)}
         \cup {{pq[1], pq[2]} :
                  pq \in {x \in (1..(n - 1)) \X (1..(n - 1)) : x[2] - x[1] >= d}}

(***************************************************************************)
(* processor.analyze_audio, beat-synchronous branch (lines 141-168).       *)
(***************************************************************************)
RECURSIVE Prune(_, _)
Prune(pruned, rest) ==
    IF rest = <<>> THEN pruned
    ELSE LET idx == Head(rest)
         IN  Prune(IF idx - pruned[Len(pruned)] >= PRUNE_GAP
                   THEN Append(pruned, idx) ELSE pruned,
                   Tail(rest))

BoundaryIndices(n, peaks) ==
    LET b_inds == SortedSeq({0} \cup {p \in peaks : 0 < p /\ p < n - 1} \cup {n - 1})
    IN  Prune(<<b_inds[1]>>, Tail(b_inds))

\* cuts = [0.0] + [beat_times[i] for i in b_inds[1:-1]] + [duration], clipped
Cuts(duration, beat_times, b_inds) ==
    LET inner == [j \in 1..(Len(b_inds) - 2) |-> beat_times[b_inds[j + 1] + 1]]
        raw == <<0>> \o inner \o <<duration>>
    IN  [j \in 1..Len(raw) |-> Clip(raw[j], 0, duration)]

BeatLabels ==
    <<"Intro", "Verse", "Chorus", "Verse", "Chorus", "Bridge", "Chorus", "Outro">>

RECURSIVE BeatSections(_, _)
BeatSections(cuts, i) ==
    IF i > Len(cuts) - 1 THEN <<>>
    ELSE LET s == cuts[i]
             e == cuts[i + 1]
         IN  IF e - s < HalfSecond * Sub
             THEN BeatSections(cuts, i + 1)
             ELSE <<Section(BeatLabels[((i - 1) % Len(BeatLabels)) + 1], s, e)>>
                  \o BeatSections(cuts, i + 1)

(***************************************************************************)
(* processor.analyze_audio (lines 112-170): the sections it returns for a  *)
(* buffer of the given duration whose tracker reports beat_times and whose *)
(* novelty curve has the given peaks.                                      *)
(***************************************************************************)
analyze_audio(duration, beat_times, peaks) ==
    IF Len(beat_times) < MIN_BEATS
    THEN [path |-> "fallback", sections |-> FallbackSections(duration)]
    ELSE LET b_inds == BoundaryIndices(Len(beat_times), peaks)
             cuts == Cuts(duration, beat_times, b_inds)
         IN  [path |-> "beatsync", sections |-> BeatSections(cuts, 1)]

(***************************************************************************)
(* server/app.py segment_song, too-few-beats branch (lines 99-108).        *)
(***************************************************************************)
RECURSIVE UniformChunks(_, _, _)
UniformChunks(t, dur, step) ==
    IF t < dur
    THEN <<Section("Section", t, Min(t + step, dur))>>
         \o UniformChunks(t + step, dur, step)
    ELSE <<>>

segment_song_fallback(dur) ==
    UniformChunks(0, dur, Max(TenSeconds * Sub, dur \div k_segments))

(***************************************************************************)
(* The decoded inputs: a beat tracker reports n beats at strictly          *)
(* increasing times inside the buffer (here evenly spaced).                *)
(***************************************************************************)
BeatTimes(n, first, period) == [i \in 1..n |-> (first + (i - 1) * period) * Sub]

LastBeat(beat_times) ==
    IF Len(beat_times) = 0 THEN 0 ELSE beat_times[Len(beat_times)]

NoAnalysis ==
    [fn |-> "none", duration |-> 0, beat_times |-> <<>>, peaks |-> {},
     path |-> "none", sections |-> <<>>]

NoStretch ==
    [fn |-> "none", in_wav |-> <<>>, bpm_ratio |-> 0, semitones |-> 0,
     on_path |-> FALSE, exit_ok |-> FALSE, raised |-> "none", out_wav |-> <<>>,
     written |-> FALSE, probed |-> FALSE, invoked |-> FALSE, warned |-> FALSE]

\* bars: int | None (main.py:71): <<>> for None, <<n>> for the bar count n
NoBars == <<>>

NoRequest ==
    [project_bpm |-> 0, crossfade_ms |-> 0, bars |-> NoBars,
     master_fade_out_ms |-> 0, items |-> <<>>]

RenderIdle ==
    /\ req = NoRequest
    /\ bin_on_path = FALSE
    /\ pc = "idle"
    /\ cursor = 0
    /\ arr = <<>>
    /\ rendered = <<>>
    /\ max_end = 0
    /\ mix = <<>>
    /\ data = {}
    /\ sliced = 0
    /\ applied = <<>>
    /\ prenorm = <<>>

NoMerge == [pc |-> "idle", segs |-> <<>>, i |-> 0, first |-> 1, merges |-> 0,
            segs_idx |-> <<>>, cmp |-> <<>>]

NoBatch == [up |-> <<>>, SEM |-> 0, waiters |-> <<>>]

NoCalls == [call |-> <<>>, files |-> {}, clash |-> FALSE]

NoKeyCall == [fn |-> "none", from_key |-> <<>>, to_key |-> <<>>, key |-> <<>>, delta |-> 0]

NoPick == [fn |-> "none", nov |-> <<>>, peaks |-> <<>>, min_gap |-> 0, pruned |-> <<>>]

NoLabelCall == [fn |-> "none", segs |-> <<>>, out |-> <<>>]

NoJobs == [JOBS |-> <<>>, th |-> "none", tracks |-> <<>>, i |-> 0, sp |-> <<>>,
           out_id |-> <<>>, e |-> <<>>, reads |-> <<>>, was |-> <<>>, reply |-> <<>>]

NoTempo == [pc |-> "idle", value |-> [n |-> 0, d |-> 1], v |-> [n |-> 0, d |-> 1],
            chain |-> <<>>]

LateIdle ==
    /\ labelcall = NoLabelCall
    /\ jobs = NoJobs
    /\ tempo = NoTempo

OthersIdle ==
    /\ LateIdle
    /\ merge = NoMerge
    /\ batch = NoBatch
    /\ tmpfiles = NoCalls
    /\ keycall = NoKeyCall
    /\ picked = NoPick

InitAnalyze == analysis = NoAnalysis /\ stretch = NoStretch /\ RenderIdle /\ OthersIdle

AnalyzeAudio ==
    /\ analysis.fn = "none"
    /\ \E n \in {0} \cup ((MIN_BEATS - 1)..MaxBeats),
         first \in 0..MaxFirst, period \in 1..MaxPeriod, tail \in 0..MaxTail :
          LET beat_times == BeatTimes(n, first, period)
            duration == LastBeat(beat_times) + tail * Sub
          IN  /\ duration > 0
              /\ \E peaks \in PeakSets(n, Max(4, _choose_min_distance(n))) :
                   LET r == analyze_audio(duration, beat_times, peaks)
                   IN  analysis' = [fn |-> "analyze_audio", duration |-> duration,
                                    beat_times |-> beat_times, peaks |-> peaks,
                                    path |-> r.path, sections |-> r.sections]
    /\ UNCHANGED <<stretch, renderVars, otherVars>>

SegmentSongFallback ==
    /\ analysis.fn = "none"
    /\ \E n \in 0..(MIN_SONG_BEATS - 1), d \in {10 * sec : sec \in 1..MaxSongSeconds} :
        analysis' = [fn |-> "segment_song", duration |-> d * Sub,
                     beat_times |-> BeatTimes(n, 0, 1), peaks |-> {},
                     path |-> "fallback",
                     sections |-> segment_song_fallback(d * Sub)]
    /\ UNCHANGED <<stretch, renderVars, otherVars>>

NextAnalyze == AnalyzeAudio \/ SegmentSongFallback

SpecAnalyze == InitAnalyze /\ [][NextAnalyze]_vars

(***************************************************************************)
(* Properties of a section list.                                           *)
(***************************************************************************)
Contiguous(secs) == \A i \in 1..(Len(secs) - 1) : secs[i].end = secs[i + 1].start

Tiles(secs, duration) ==
    /\ Len(secs) > 0
    /\ secs[1].start = 0
    /\ secs[Len(secs)].end = duration
    /\ \A i \in 1..Len(secs) : secs[i].start < secs[i].end
    /\ \A i \in 1..Len(secs), j \in 1..Len(secs) :
          i < j => secs[i].start <= secs[j].start /\ secs[i].end <= secs[j].start
    /\ Contiguous(secs)

\* C1: the sections returned by processor.analyze_audio are sorted, pairwise
\* non-overlapping, each with start < end, start at 0, end at duration and
\* leave no gap, on the too-few-beats path and on the beat-synchronous path.
C1_SectionsTileDuration ==
    analysis.fn = "analyze_audio" => Tiles(analysis.sections, analysis.duration)

FourNamedEqualSections(secs, duration) ==
    /\ Len(secs) = 4
    /\ [i \in 1..4 |-> secs[i].label] = <<"Intro", "Verse", "Chorus", "Bridge">>
    /\ \A i \in 1..4 : secs[i].end - secs[i].start = secs[1].end - secs[1].start
    /\ Tiles(secs, duration)

TARGET_SR == 20
SourceFrames == 8     \* length of the cached source, in frames

SourceAudio(h) == [k \in 1..SourceFrames |-> <<40 + 10 * (k % 3), -(30 + (k % 5))>>]

(***************************************************************************)
(* Tempo ratios are counted in millionths (RatioOne is 1.0) and semitones  *)
(* in ten-thousandths (SemitoneTol is 1e-3).                               *)
(***************************************************************************)
RatioOne == 1000000   \* processor.py:177  rel_tol=1e-6, abs_tol=1e-6
SemitoneTol == 10     \* processor.py:177  abs(semitones) < 1e-3

\* math.isclose(bpm_ratio, 1.0, rel_tol=1e-6, abs_tol=1e-6)
isclose_one(bpm_ratio) ==
    Abs(bpm_ratio - RatioOne)
        <= Max(Max(Abs(bpm_ratio), RatioOne) \div RatioOne, RatioOne \div RatioOne)

(***************************************************************************)
(* What the Rubber Band binary writes when it succeeds: the input played   *)
(* bpm_ratio times as fast.  The binary is outside the repository; this    *)
(* stands for its output.                                                  *)
(***************************************************************************)
Processed(buf, bpm_ratio) ==
    IF bpm_ratio <= 0 THEN <<>>
    ELSE [k \in 1..((Len(buf) * 1000) \div (bpm_ratio \div 1000)) |->
             buf[Min(Len(buf), (((k - 1) * (bpm_ratio \div 1000)) \div 1000) + 1)]]

(***************************************************************************)
(* processor.rubberband_time_pitch (lines 175-187).  on_path: shutil.which *)
(* finds the binary; exit_ok: the binary exits with status 0.  The result  *)
(* tells what was raised, what was written to out_wav, whether the PATH    *)
(* was probed and the binary run, and whether a degraded-mode warning was  *)
(* given (the function has none to give).                                  *)
(***************************************************************************)
rubberband_probe_first(in_wav, bpm_ratio, semitones, on_path, exit_ok) ==
    IF ~on_path
    THEN [raised |-> "RuntimeError", out_wav |-> <<>>, written |-> FALSE,
          probed |-> TRUE, invoked |-> FALSE, warned |-> FALSE]
    ELSE IF isclose_one(bpm_ratio) /\ Abs(semitones) < SemitoneTol
    THEN [raised |-> "none", out_wav |-> in_wav, written |-> TRUE,
          probed |-> TRUE, invoked |-> FALSE, warned |-> FALSE]
    ELSE IF ~exit_ok
    THEN [raised |-> "CalledProcessError", out_wav |-> <<>>, written |-> FALSE,
          probed |-> TRUE, invoked |-> TRUE, warned |-> FALSE]
    ELSE [raised |-> "none", out_wav |-> Processed(in_wav, bpm_ratio),
          written |-> TRUE, probed |-> TRUE, invoked |-> TRUE, warned |-> FALSE]

rubberband_time_pitch(in_wav, bpm_ratio, semitones, on_path, exit_ok) ==
    IF isclose_one(bpm_ratio) /\ Abs(semitones) < SemitoneTol
    THEN [raised |-> "none", out_wav |-> in_wav, written |-> TRUE,
          probed |-> FALSE, invoked |-> FALSE, warned |-> FALSE]
    ELSE IF ~on_path
    THEN [raised |-> "RuntimeError", out_wav |-> <<>>, written |-> FALSE,
          probed |-> TRUE, invoked |-> FALSE, warned |-> FALSE]
    ELSE IF ~exit_ok
    THEN [raised |-> "CalledProcessError", out_wav |-> <<>>, written |-> FALSE,
          probed |-> TRUE, invoked |-> TRUE, warned |-> FALSE]
    ELSE [raised |-> "none", out_wav |-> Processed(in_wav, bpm_ratio),
          written |-> TRUE, probed |-> TRUE, invoked |-> TRUE, warned |-> FALSE]

(***************************************************************************)
(* The time/pitch call on its own: any slice, ratio and shift, with the    *)
(* binary present or not.                                                  *)
(***************************************************************************)
MaxSliceFrames == 3   \* longest slice handed to the call

Ratios ==
    {RatioOne - 2, RatioOne - 1, RatioOne, RatioOne + 1, RatioOne + 2,
     RatioOne \div 2, 2 * RatioOne}

Semitones == {-SemitoneTol, 1 - SemitoneTol, 0, SemitoneTol - 1, SemitoneTol,
              2000 * SemitoneTol}

InitStretch == analysis = NoAnalysis /\ stretch = NoStretch /\ RenderIdle /\ OthersIdle

TimePitchCall ==
    /\ stretch.fn = "none"
    /\ \E n \in 1..MaxSliceFrames, bpm_ratio \in Ratios, semitones \in Semitones,
          on_path \in BOOLEAN, exit_ok \in BOOLEAN :
          LET in_wav == SubSeq(SourceAudio("a"), 1, n)
              r == rubberband_time_pitch(in_wav, bpm_ratio, semitones, on_path, exit_ok)
          IN  stretch' = [fn |-> "rubberband_time_pitch", in_wav |-> in_wav,
                          bpm_ratio |-> bpm_ratio, semitones |-> semitones,
                          on_path |-> on_path, exit_ok |-> exit_ok,
                          raised |-> r.raised, out_wav |-> r.out_wav,
                          written |-> r.written, probed |-> r.probed,
                          invoked |-> r.invoked, warned |-> r.warned]
    /\ UNCHANGED <<analysis, renderVars, otherVars>>

NextStretch == TimePitchCall

SpecStretch == InitStretch /\ [][NextStretch]_vars

\* the claim's own reading of "within tolerance": at most one millionth off
\* 1.0, and less than a thousandth of a semitone off 0
WithinTolerance(bpm_ratio, semitones) ==
    /\ RatioOne - 1 <= bpm_ratio /\ bpm_ratio <= RatioOne + 1
    /\ -SemitoneTol < semitones /\ semitones < SemitoneTol

\* C3: when the binary is missing or exits with an error on a non-identity
\* transform, rubberband_time_pitch takes the in-process fallback, gives the
\* degraded-mode warning and returns a result instead of raising.
C3_FallbackOnMissingOrFailingBinary ==
    (/\ stretch.fn = "rubberband_time_pitch"
     /\ ~WithinTolerance(stretch.bpm_ratio, stretch.semitones)
     /\ (~stretch.on_path \/ ~stretch.exit_ok))
        => /\ stretch.raised = "none"
           /\ stretch.written
           /\ stretch.warned

\* C4: for a ratio within tolerance of 1.0 and a shift within tolerance of 0,
\* rubberband_time_pitch writes an output equal to its input and neither
\* probes the PATH nor runs the binary, so it succeeds with or without it.
C4_IdentityCopies ==
    (/\ stretch.fn = "rubberband_time_pitch"
     /\ WithinTolerance(stretch.bpm_ratio, stretch.semitones))
        => /\ stretch.raised = "none"
           /\ stretch.written
           /\ stretch.out_wav = stretch.in_wav
           /\ ~stretch.probed
           /\ ~stretch.invoked

C4_Witness ==
    /\ stretch.fn = "rubberband_time_pitch"
    /\ stretch.bpm_ratio = RatioOne + 1
    /\ stretch.semitones = SemitoneTol - 1
    /\ ~stretch.on_path
    /\ stretch.out_wav = stretch.in_wav
    /\ Len(stretch.out_wav) = MaxSliceFrames
(***************************************************************************)
(* Exact sample arithmetic for the mix: a sample of the mix is a fraction  *)
(* [n, d] in lowest terms with d > 0 (float32 rounding is not modelled).   *)
(***************************************************************************)
RECURSIVE GCD(_, _)
GCD(a, b) == IF b = 0 THEN a ELSE GCD(b, a % b)

Rat(n, d) == LET g == GCD(Abs(n), d) IN [n |-> n \div g, d |-> d \div g]
RInt(i) == [n |-> i, d |-> 1]
RAdd(a, b) == Rat(a.n * b.d + b.n * a.d, a.d * b.d)
RMul(a, b) == Rat(a.n * b.n, a.d * b.d)
RAbs(a) == [n |-> Abs(a.n), d |-> a.d]
RLeq(a, b) == a.n * b.d <= b.n * a.d
RLess(a, b) == a.n * b.d < b.n * a.d
RMax(a, b) == IF RLeq(a, b) THEN b ELSE a

TARGET_CH == 2        \* renderer.py:9
Silence == [c \in 1..TARGET_CH |-> RInt(0)]
RFrame(f) == [c \in 1..TARGET_CH |-> RInt(f[c])]

\* float(np.max(np.abs(mix))) if mix.size else 0.0
RECURSIVE PeakFrom(_, _)
PeakFrom(buf, k) ==
    IF k > Len(buf) THEN RInt(0)
    ELSE RMax(RMax(RAbs(buf[k][1]), RAbs(buf[k][2])), PeakFrom(buf, k + 1))

Peak(buf) == PeakFrom(buf, 1)

(***************************************************************************)
(* processor.slice_wav (lines 189-192): at least 50 ms from max(0, start), *)
(* cut off where the source ends.  Request times are whole milliseconds.   *)
(***************************************************************************)
MinSliceMs == 50      \* processor.py:190  max(0.05, end - start)

slice_wav(src, start, end) ==
    LET dur == Max(MinSliceMs, end - start)
        first == (Max(0, start) * TARGET_SR) \div 1000
        count == (dur * TARGET_SR) \div 1000
    IN  SubSeq(src, first + 1, Min(Len(src), first + count))

(***************************************************************************)
(* renderer.render_mix, the pieces of its body.                            *)
(***************************************************************************)
\* np.tile(y, (loops, 1)): y end to end, loops times (lines 68-70)
RECURSIVE Repeat(_, _)
Repeat(y, loops) == IF loops <= 0 THEN <<>> ELSE y \o Repeat(y, loops - 1)

Tile_once_less(y, loops) == IF loops > 1 /\ Len(y) > 0 THEN Repeat(y, loops - 1) ELSE y

Tile(y, loops) == IF loops > 1 /\ Len(y) > 0 THEN Repeat(y, loops) ELSE y

\* xfade_n = int(TARGET_SR * (crossfade_ms / 1000.0)) (line 53)
XfadeN(crossfade_ms) == (TARGET_SR * crossfade_ms) \div 1000

\* start_sample = int(it.at_bar * bar_dur * TARGET_SR), bar_dur = 60/bpm*4
StartSample(at_bar, project_bpm) == (at_bar * 60 * 4 * TARGET_SR) \div project_bpm

\* ratio = project_bpm / max(1e-6, it.source_bpm), in millionths (line 62)
BpmRatio(project_bpm, source_bpm) == (project_bpm * RatioOne) \div source_bpm

\* _ensure_len (lines 32-35)
_ensure_len(buf, length) ==
    IF Len(buf) >= length THEN buf
    ELSE buf \o [k \in 1..(length - Len(buf)) |-> Silence]

\* xfade = min(xfade_n, y.shape[0]) (line 87)
XfadeLen_whole_item(xfade_n, ylen) == ylen

XfadeLen(xfade_n, ylen) == Min(xfade_n, ylen)

\* _lin_fade(n): fi = linspace(0, 1, n), fo = 1 - fi (lines 37-41)
FadeIn_from_first_step(n, k) == Rat(k, n)

FadeIn(n, k) == IF n = 1 THEN RInt(0) ELSE Rat(k - 1, n - 1)
FadeOut(n, k) == RAdd(RInt(1), RMul(RInt(-1), FadeIn(n, k)))

\* the summing pass, writing silence over what lies after the item
SumItem_silences_after(buf, start, y, xfade_n) ==
    LET end == start + Len(y)
        grown == _ensure_len(buf, end)
        xfade == XfadeLen(xfade_n, Len(y))
    IN  [p \in 1..Len(grown) |->
            IF p <= start THEN grown[p]
            ELSE IF p > end THEN Silence
            ELSE LET k == p - start
                 IN  [c \in 1..TARGET_CH |->
                        IF xfade > 0 /\ k <= xfade
                        THEN RAdd(RMul(grown[p][c], FadeOut(xfade, k)),
                                  RMul(RInt(y[k][c]), FadeIn(xfade, k)))
                        ELSE RAdd(grown[p][c], RInt(y[k][c]))]]

\* one pass of the summing loop (lines 84-95): y laid at frame offset start
SumItem(buf, start, y, xfade_n) ==
    LET end == start + Len(y)
        grown == _ensure_len(buf, end)
        xfade == XfadeLen(xfade_n, Len(y))
    IN  [p \in 1..Len(grown) |->
            IF p <= start \/ p > end THEN grown[p]
            ELSE LET k == p - start
                 IN  [c \in 1..TARGET_CH |->
                        IF xfade > 0 /\ k <= xfade
                        THEN RAdd(RMul(grown[p][c], FadeOut(xfade, k)),
                                  RMul(RInt(y[k][c]), FadeIn(xfade, k)))
                        ELSE RAdd(grown[p][c], RInt(y[k][c]))]]

\* master fade out (lines 98-104)
MasterFade_left_only(buf, master_fade_out_ms) ==
    IF master_fade_out_ms > 0 /\ Len(buf) > 0
    THEN LET n == Min((TARGET_SR * master_fade_out_ms) \div 1000, Len(buf))
         IN  [p \in 1..Len(buf) |->
                IF p <= Len(buf) - n THEN buf[p]
                ELSE LET k == p - (Len(buf) - n)
                         fade == IF n = 1 THEN RInt(1) ELSE Rat(n - k, n - 1)
                     IN  [c \in 1..TARGET_CH |->
                            IF c = 1 THEN RMul(buf[p][c], fade) ELSE buf[p][c]]]
    ELSE buf

MasterFade(buf, master_fade_out_ms) ==
    IF master_fade_out_ms > 0 /\ Len(buf) > 0
    THEN LET n == Min((TARGET_SR * master_fade_out_ms) \div 1000, Len(buf))
         IN  [p \in 1..Len(buf) |->
                IF p <= Len(buf) - n THEN buf[p]
                ELSE LET k == p - (Len(buf) - n)
                         fade == IF n = 1 THEN RInt(1) ELSE Rat(n - k, n - 1)
                     IN  [c \in 1..TARGET_CH |-> RMul(buf[p][c], fade)]]
    ELSE buf

\* gentle normalization (lines 107-109)
NormPeak == 99        \* renderer.py:108  peak > 0.99

Normalize_any_peak(buf) ==
    LET peak == Peak(buf)
    IN  IF RLess(RInt(0), peak)
        THEN [p \in 1..Len(buf) |->
                [c \in 1..TARGET_CH |->
                    RMul(buf[p][c], Rat(NormPeak * peak.d, peak.n))]]
        ELSE buf

Normalize(buf) ==
    LET peak == Peak(buf)
    IN  IF RLess(RInt(NormPeak), peak)
        THEN [p \in 1..Len(buf) |->
                [c \in 1..TARGET_CH |->
                    RMul(buf[p][c], Rat(NormPeak * peak.d, peak.n))]]
        ELSE buf

(***************************************************************************)
(* POST /arrange/render (main.py lines 167-202) and the render_mix it      *)
(* calls (renderer.py lines 43-113), one action per loop pass.             *)
(***************************************************************************)
Cached == {"a"}       \* the hashes with a file in CACHE

\* CACHE.glob(f"{it.file_hash}.*") finds nothing (main.py:174-175)
MissingSource_first_only(items, k) == k = 1 /\ items[k].file_hash \notin Cached

MissingSource(items, k) == items[k].file_hash \notin Cached

TmpName(kind, it) == <<kind, it.file_hash, it.start, it.end>>

\* main.py:169-170, and the entry into the loop of lines 173-188
ArrangeRender ==
    /\ pc = "received"
    /\ IF req.items = <<>>
       THEN pc' = "http400" /\ cursor' = cursor
       ELSE pc' = "check" /\ cursor' = 1
    /\ UNCHANGED <<otherVars, analysis, stretch, req, bin_on_path, arr, rendered, max_end, mix, data, sliced,
                   applied, prenorm>>

\* one pass of the loop of main.py:173-188
ArrangeItem ==
    /\ pc = "check"
    /\ LET it == req.items[cursor]
       IN  IF MissingSource(req.items, cursor)
           THEN /\ pc' = "http404"
                /\ UNCHANGED <<arr, cursor>>
           ELSE /\ arr' = Append(arr, [it EXCEPT !.loop_times = Max(1, it.loop_times)])
                /\ IF cursor = Len(req.items)
                   THEN pc' = "render" /\ cursor' = 1
                   ELSE pc' = "check" /\ cursor' = cursor + 1
    /\ UNCHANGED <<otherVars, analysis, stretch, req, bin_on_path, rendered, max_end, mix, data, sliced,
                   applied, prenorm>>

\* one pass of the loop of renderer.py:55-75
RenderItem ==
    /\ pc = "render"
    /\ LET it == arr[cursor]
           tmp_in == TmpName("arr_in", it)
           tmp_out == TmpName("arr_out", it)
       IN  IF it.file_hash \notin Cached
           THEN \* slice_wav cannot load the source: the exception leaves render_mix
                /\ pc' = "http500"
                /\ UNCHANGED <<cursor, rendered, max_end, data, sliced>>
           ELSE \E exit_ok \in BOOLEAN :
                LET sl == slice_wav(SourceAudio(it.file_hash), it.start, it.end)
                    r == rubberband_time_pitch(sl, BpmRatio(req.project_bpm, it.source_bpm),
                                               it.semitones, bin_on_path, exit_ok)
                    loops == Max(1, it.loop_times)
                    y == Tile(r.out_wav, loops)
                    start_sample == StartSample(it.at_bar, req.project_bpm)
                IN  /\ sliced' = sliced + 1
                    /\ IF r.raised # "none"
                       THEN /\ pc' = "http500"
                            /\ data' = data \cup {tmp_in}
                            /\ UNCHANGED <<cursor, rendered, max_end>>
                       ELSE /\ data' = data \ {tmp_in, tmp_out}
                            /\ rendered' = Append(rendered,
                                   [start |-> start_sample, y |-> y,
                                    once |-> r.out_wav, loops |-> it.loop_times])
                            /\ max_end' = Max(max_end, start_sample + Len(y))
                            /\ IF cursor = Len(arr)
                               THEN pc' = "allocate" /\ cursor' = cursor
                               ELSE pc' = "render" /\ cursor' = cursor + 1
    /\ UNCHANGED <<otherVars, analysis, stretch, req, bin_on_path, arr, mix, applied, prenorm>>

\* renderer.py:77-80
Allocate ==
    /\ pc = "allocate"
    /\ LET total == IF req.bars = NoBars THEN max_end
                    ELSE Max(max_end, StartSample(req.bars[1], req.project_bpm))
       IN  /\ max_end' = total
           /\ mix' = [k \in 1..(total + 1) |-> Silence]
    /\ pc' = "sum"
    /\ cursor' = 1
    /\ UNCHANGED <<otherVars, analysis, stretch, req, bin_on_path, arr, rendered, data, sliced, applied, prenorm>>

\* one pass of the loop of renderer.py:83-95
SumRendered ==
    /\ pc = "sum"
    /\ LET e == rendered[cursor]
           xfade == XfadeLen(XfadeN(req.crossfade_ms), Len(e.y))
       IN  /\ mix' = SumItem(mix, e.start, e.y, XfadeN(req.crossfade_ms))
           /\ applied' = Append(applied, IF xfade > 0 THEN xfade ELSE 0)
    /\ IF cursor = Len(rendered)
       THEN pc' = "fade" /\ cursor' = cursor
       ELSE pc' = "sum" /\ cursor' = cursor + 1
    /\ UNCHANGED <<otherVars, analysis, stretch, req, bin_on_path, arr, rendered, max_end, data, sliced, prenorm>>

\* renderer.py:97-104, with the clamp of main.py:195
MasterFadeOut ==
    /\ pc = "fade"
    /\ mix' = MasterFade(mix, Max(0, req.master_fade_out_ms))
    /\ pc' = "normalize"
    /\ UNCHANGED <<otherVars, analysis, stretch, req, bin_on_path, cursor, arr, rendered, max_end, data, sliced,
                   applied, prenorm>>

\* renderer.py:106-113 and the FileResponse of main.py:198-202
NormalizeAndWrite ==
    /\ pc = "normalize"
    /\ prenorm' = mix
    /\ mix' = Normalize(mix)
    /\ pc' = "done"
    /\ UNCHANGED <<otherVars, analysis, stretch, req, bin_on_path, cursor, arr, rendered, max_end, data, sliced,
                   applied>>

NextRender ==
    \/ ArrangeRender
    \/ ArrangeItem
    \/ RenderItem
    \/ Allocate
    \/ SumRendered
    \/ MasterFadeOut
    \/ NormalizeAndWrite

(***************************************************************************)
(* The requests served.                                                    *)
(***************************************************************************)
Item(h, window, source_bpm, semitones, at_bar, loop_times) ==
    [file_hash |-> h, start |-> window[1], end |-> window[2],
     source_bpm |-> source_bpm, semitones |-> semitones, at_bar |-> at_bar,
     loop_times |-> loop_times]

UpToTwo(S) == {<<x>> : x \in S} \cup {<<xy[1], xy[2]>> : xy \in S \X S}

InitRequest(requests, binaries) ==
    /\ analysis = NoAnalysis
    /\ stretch = NoStretch
    /\ OthersIdle
    /\ req \in requests
    /\ bin_on_path \in binaries
    /\ pc = "received"
    /\ cursor = 0
    /\ arr = <<>>
    /\ rendered = <<>>
    /\ max_end = 0
    /\ mix = <<>>
    /\ data = {}
    /\ sliced = 0
    /\ applied = <<>>
    /\ prenorm = <<>>
MaxLoops == 2         \* largest loop count asked for
MaxBar == 1           \* latest bar an item is placed at
MaxXfade == 3         \* longest crossfade asked for, in steps of 50 ms

ProjectBpm == 1200    \* the project tempo of every request: a bar is 0.2 s

\* the cached source's duration in ms, as librosa reports it
SourceMs == (SourceFrames * 1000) \div TARGET_SR

InsideSource(it) == 0 <= it.start /\ it.start < it.end /\ it.end <= SourceMs

(***************************************************************************)
(* SpecArrange: requests whose items may name an uncached source, a slice  *)
(* window outside the source, or a loop count below 1.                     *)
(***************************************************************************)
ArrangeWindows == {<<0, 100>>, <<-100, 100>>, <<200, 500>>, <<200, 100>>}

ArrangeItems ==
    {Item(h, w, ProjectBpm, 0, 0, l) :
        h \in {"a", "zz"}, w \in ArrangeWindows, l \in 0..MaxLoops}

ArrangeRequests ==
    {[project_bpm |-> ProjectBpm, crossfade_ms |-> 50, bars |-> NoBars,
      master_fade_out_ms |-> 0, items |-> its] :
        its \in {<<>>} \cup UpToTwo(ArrangeItems)}

InitArrange == InitRequest(ArrangeRequests, {TRUE})

SpecArrange == InitArrange /\ [][NextRender]_vars

(***************************************************************************)
(* SpecRender: requests of one or two items of a cached source, of         *)
(* different lengths, tempi, bars and loop counts, under each crossfade.   *)
(***************************************************************************)
RenderItems ==
    {Item("a", w, sb, 0, b, l) :
        w \in {<<0, 100>>, <<0, 200>>}, sb \in {ProjectBpm, ProjectBpm \div 2},
        b \in 0..MaxBar, l \in 1..MaxLoops}

RenderRequests ==
    {[project_bpm |-> ProjectBpm, crossfade_ms |-> 50 * x, bars |-> b,
      master_fade_out_ms |-> f, items |-> its] :
        x \in 0..MaxXfade, b \in {NoBars, <<MaxBar + 2>>}, f \in {-100, 0, 200},
        its \in UpToTwo(RenderItems)}

InitRender == InitRequest(RenderRequests, BOOLEAN)

SpecRender == InitRender /\ [][NextRender]_vars

\* C5: a request holding an item whose loop count is 0 or negative is
\* rejected before any source is opened or sliced, and no mix is produced.
C5_NonPositiveLoopRejected ==
    (\E k \in 1..Len(req.items) : req.items[k].loop_times <= 0)
        => sliced = 0 /\ pc # "done"

\* C6: a request holding an item whose slice window lies outside its source
\* (start < 0, end > source duration, or end <= start) is rejected before
\* any audio processing of any item begins.
C6_WindowOutsideSourceRejected ==
    (\E k \in 1..Len(req.items) :
        req.items[k].file_hash \in Cached /\ ~InsideSource(req.items[k]))
        => sliced = 0 /\ pc # "done"

\* C7: if any item of the request, at any position, names a source that is
\* not in the cache, the request never gets past the check of main.py:173-176
\* and no item of it has been sliced, stretched or placed.
C7_MissingSourceBeforeProcessing ==
    (\E k \in 1..Len(req.items) : req.items[k].file_hash \notin Cached)
        => /\ pc \in {"received", "check", "http404"}
           /\ sliced = 0
           /\ data = {}
           /\ rendered = <<>>
           /\ mix = <<>>

C7_Witness ==
    /\ pc = "http404"
    /\ Len(req.items) = 2
    /\ req.items[1].file_hash \in Cached
    /\ req.items[2].file_hash \notin Cached
    /\ Len(arr) = 1
    /\ sliced = 0

\* C8: an item with loop count N >= 2 contributes a buffer of exactly N times
\* the frames of its single-pass transformed buffer: N exact repetitions of
\* it, with nothing inserted or removed between repeats.
C8_LoopIsExactRepetition ==
    \A j \in 1..Len(rendered) :
        LET N == req.items[j].loop_times
            y == rendered[j].y
            once == rendered[j].once
        IN  N >= 2 =>
              /\ Len(y) = N * Len(once)
              /\ \A k \in 1..Len(y) : y[k] = once[((k - 1) % Len(once)) + 1]

C8_Witness ==
    /\ pc = "done"
    /\ \E j \in 1..Len(rendered) :
          /\ req.items[j].loop_times = MaxLoops
          /\ req.items[j].source_bpm # req.project_bpm
          /\ Len(rendered[j].once) >= 2
          /\ Len(rendered[j].y) = MaxLoops * Len(rendered[j].once)

Overlap(e1, e2) ==
    /\ Len(e1.y) > 0 /\ Len(e2.y) > 0
    /\ e1.start < e2.start + Len(e2.y)
    /\ e2.start < e1.start + Len(e1.y)

\* C9 (as stated): for every placed item that overlaps already-placed
\* content, the crossfade covers no more frames than the minimum of the
\* configured crossfade, the incoming item's length and the length of the
\* already-placed item it overlaps.
C9_XfadeWithinBothItems ==
    \A j \in 1..Len(applied) : \A k \in 1..(j - 1) :
        Overlap(rendered[k], rendered[j]) =>
            applied[j] <= Min(Min(XfadeN(req.crossfade_ms), Len(rendered[j].y)),
                              Len(rendered[k].y))

\* C9 (amended): for every placed item the crossfade covers no more frames
\* than the minimum of the configured crossfade and the incoming item's own
\* length; the length of the item it overlaps does not bound it.
C9_XfadeWithinIncomingItem ==
    \A j \in 1..Len(applied) :
        /\ applied[j] <= Max(0, XfadeN(req.crossfade_ms))
        /\ applied[j] <= Len(rendered[j].y)

C9_Witness ==
    /\ Len(applied) = 2
    /\ Overlap(rendered[1], rendered[2])
    /\ applied[2] = XfadeN(req.crossfade_ms)
    /\ applied[2] > Len(rendered[1].y)

\* C10: normalization never raises the peak: it leaves every sample as it was
\* when the peak is at most 0.99, and when the peak exceeds 0.99 it scales
\* every sample by one factor, after which the peak is 0.99.
C10_NormalizationOnlyScalesDown ==
    pc = "done" =>
        LET before == Peak(prenorm)
            after == Peak(mix)
        IN  /\ Len(mix) = Len(prenorm)
            /\ RLeq(after, before)
            /\ RLeq(before, RInt(NormPeak)) => mix = prenorm
            /\ RLess(RInt(NormPeak), before) =>
                  /\ after = RInt(NormPeak)
                  /\ \A p \in 1..Len(mix) : \A c \in 1..TARGET_CH :
                        RMul(mix[p][c], before) = RMul(prenorm[p][c], RInt(NormPeak))

C10_Witness ==
    /\ pc = "done"
    /\ RLess(RInt(NormPeak), Peak(prenorm))
    /\ Peak(mix) = RInt(NormPeak)
    /\ mix # prenorm
\* the frames the items ask for: the latest end of an item, or the explicit
\* bar count when that is later
AskedFrames ==
    LET ends == {rendered[j].start + Len(rendered[j].y) : j \in 1..Len(rendered)}
        last == CHOOSE e \in ends : \A o \in ends : o <= e
    IN  IF req.bars = NoBars THEN last
        ELSE Max(last, StartSample(req.bars[1], req.project_bpm))

\* C11: two items of equal length, the second placed exactly where the first
\* ends, rendered with a crossfade: the output is as long as both items
\* together less the crossfade (to within a frame of rounding).
C11_CrossfadeAbsorbedInLength ==
    (/\ pc = "done"
     /\ Len(rendered) = 2
     /\ req.bars = NoBars
     /\ rendered[1].start = 0
     /\ Len(rendered[1].y) = Len(rendered[2].y)
     /\ rendered[2].start = Len(rendered[1].y)
     /\ XfadeN(req.crossfade_ms) > 0
     /\ XfadeN(req.crossfade_ms) < Len(rendered[2].y))
        => Abs(Len(mix) - (Len(rendered[1].y) + Len(rendered[2].y)
                            - XfadeN(req.crossfade_ms))) <= 1

\* C12: the written buffer has exactly as many frames as the latest end of
\* an item, or as the explicit bar count when that is more: no fewer and no
\* more.
C12_LengthIsLatestEnd ==
    pc = "done" => Len(mix) = AskedFrames
(***************************************************************************)
(* segmentation.segment_and_label, the merge of too-short segments (lines  *)
(* 137-157).  Times are whole frames of 3.5 s, so that min_seg_s = 7.0 is  *)
(* two frames.  segs is the list of (start, end) pairs built at lines      *)
(* 126-135 from the sorted boundaries: contiguous, each of positive        *)
(* length, never empty (line 134 returns before the loop otherwise).       *)
(* merge.i is Python's 0-based i.                                          *)
(***************************************************************************)
MaxFrames == 9        \* the longest song, in frames

min_seg_s == 2        \* segmentation.py:87  min_seg_s=7.0

\* segs.pop(i)
Pop_nothing(segs, i) == segs

Pop(segs, i) == SubSeq(segs, 1, i) \o SubSeq(segs, i + 2, Len(segs))

\* segs[i+1] = (s, segs[i+1][1]); segs.pop(i)   (lines 145 and 153)
MergeIntoNext(segs, i) ==
    Pop([segs EXCEPT ![i + 2] = <<segs[i + 1][1], segs[i + 2][2]>>], i)

\* segs.pop(i) alone
MergeIntoPrev_keeps_end(segs, i) == Pop(segs, i)

\* segs[i-1] = (segs[i-1][0], e); segs.pop(i)   (lines 147 and 155)
MergeIntoPrev(segs, i) ==
    Pop([segs EXCEPT ![i] = <<segs[i][1], segs[i + 1][2]>>], i)

\* the test of line 142, never met by the first segment
TooShort_never_first(segs, i) ==
    segs[i + 1][2] - segs[i + 1][1] < min_seg_s /\ Len(segs) > 1 /\ i > 0

\* the test of line 142
TooShort(segs, i) ==
    segs[i + 1][2] - segs[i + 1][1] < min_seg_s /\ Len(segs) > 1

\* lines 126-133: the segments between consecutive boundaries
SegsOf(bounds) ==
    LET sorted == SortedSeq(bounds)
    IN  [k \in 1..(Len(sorted) - 1) |-> <<sorted[k], sorted[k + 1]>>]

InitialSegs ==
    UNION {{SegsOf({0, last} \cup inner) : inner \in SUBSET (1..(last - 1))} :
              last \in 1..MaxFrames}

InitMerge ==
    /\ analysis = NoAnalysis /\ stretch = NoStretch /\ RenderIdle /\ LateIdle
    /\ batch = NoBatch /\ tmpfiles = NoCalls /\ keycall = NoKeyCall /\ picked = NoPick
    /\ \E segs \in InitialSegs :
          merge = [pc |-> "loop", segs |-> segs, i |-> 0, first |-> Len(segs), merges |-> 0,
                   segs_idx |-> segs, cmp |-> <<>>]

\* line 149: the frames at which the two energies of lines 150-151 are taken
SampledAt(segs_idx, i) == <<segs_idx[i + 1][2], segs_idx[i + 2][1]>>

\* what an iteration of lines 143-155 merged: which branch it took, the
\* segment (s, e) it removed and the frames it sampled, if it compared
Compared(segs, segs_idx, i) ==
    [where |-> IF i = 0 THEN "first"
               ELSE IF i = Len(segs) - 1 THEN "last" ELSE "interior",
     s |-> segs[i + 1][1],
     e |-> segs[i + 1][2],
     sampled |-> IF i = 0 \/ i = Len(segs) - 1 THEN <<>> ELSE SampledAt(segs_idx, i)]

\* an iteration that takes the branch of line 142; right_energy > left_energy
\* (line 152) depends on the similarity matrix and may go either way.  The
\* count of merges is capped at the initial number of segments.
MergeShort ==
    /\ merge.pc = "loop"
    /\ merge.i < Len(merge.segs)
    /\ TooShort(merge.segs, merge.i)
    /\ merge.merges < merge.first
    /\ \E right_wins \in BOOLEAN :
          LET segs == merge.segs
              i == merge.i
              merged == IF i = 0 THEN MergeIntoNext(segs, i)
                        ELSE IF i = Len(segs) - 1 THEN MergeIntoPrev(segs, i)
                        ELSE IF right_wins THEN MergeIntoNext(segs, i)
                        ELSE MergeIntoPrev(segs, i)
          IN  merge' = [merge EXCEPT !.segs = merged, !.merges = @ + 1,
                                     !.cmp = <<Compared(segs, merge.segs_idx, i)>>]
    /\ UNCHANGED <<lateVars, analysis, stretch, renderVars, batch, tmpfiles, keycall, picked>>

\* an iteration that does not: i += 1 (line 157)
MergeAdvance ==
    /\ merge.pc = "loop"
    /\ merge.i < Len(merge.segs)
    /\ ~TooShort(merge.segs, merge.i)
    /\ merge' = [merge EXCEPT !.i = @ + 1]
    /\ UNCHANGED <<lateVars, analysis, stretch, renderVars, batch, tmpfiles, keycall, picked>>

\* the while condition of line 140 fails
MergeDone ==
    /\ merge.pc = "loop"
    /\ merge.i >= Len(merge.segs)
    /\ merge' = [merge EXCEPT !.pc = "done"]
    /\ UNCHANGED <<lateVars, analysis, stretch, renderVars, batch, tmpfiles, keycall, picked>>

NextMerge == MergeShort \/ MergeAdvance \/ MergeDone

\* the loop is the body of one synchronous call: it keeps running
SpecMerge == InitMerge /\ [][NextMerge]_vars /\ WF_vars(NextMerge)

\* C13: the merge loop ends for every initial segment list; an iteration
\* that merges leaves exactly one segment fewer; there are never more than
\* (initial segment count - 1) merges.
C13_MergeLoopTerminates ==
    /\ [](/\ merge.merges <= merge.first - 1
          /\ Len(merge.segs) = merge.first - merge.merges)
    /\ [][merge'.merges # merge.merges
            => /\ merge'.merges = merge.merges + 1
               /\ Len(merge'.segs) = Len(merge.segs) - 1]_vars
    /\ <>(merge.pc = "done")

C13_Witness ==
    /\ merge.pc = "done"
    /\ merge.first >= 4
    /\ merge.merges = 2
    /\ Len(merge.segs) = merge.first - 2
(***************************************************************************)
(* main.analyze_batch (lines 112-135) under concurrent requests.  Each     *)
(* upload is one _one(f) task; the requests they came in (one to three     *)
(* files each, line 114) play no part in the admission.  SEM is the        *)
(* asyncio.Semaphore of line 32: a counter and a first-in-first-out queue  *)
(* of waiting tasks; release hands the slot to the longest waiter.         *)
(***************************************************************************)
MaxUploads == 5       \* uploads in flight over all requests

SEM_SLOTS == 3        \* main.py:32  asyncio.Semaphore(3)

Uploads == 1..MaxUploads

Inside(b) == {u \in DOMAIN b.up : b.up[u] \in {"saving", "analyzing"}}

\* SEM.acquire() at line 118 for task u
Acquire(b, u) ==
    IF b.SEM > 0 /\ b.waiters = <<>>
    THEN [b EXCEPT !.SEM = @ - 1, !.up[u] = "saving"]
    ELSE [b EXCEPT !.waiters = Append(@, u), !.up[u] = "waiting"]

\* SEM.release() on leaving the async with block of line 118
Release_kept(b) == b

Release(b) ==
    IF b.waiters = <<>> THEN [b EXCEPT !.SEM = @ + 1]
    ELSE [b EXCEPT !.waiters = Tail(@), !.up[Head(b.waiters)] = "saving"]

InitBatch ==
    /\ analysis = NoAnalysis /\ stretch = NoStretch /\ RenderIdle /\ LateIdle
    /\ merge = NoMerge /\ tmpfiles = NoCalls /\ keycall = NoKeyCall /\ picked = NoPick
    /\ batch = [up |-> [u \in Uploads |-> "new"], SEM |-> SEM_SLOTS, waiters |-> <<>>]

\* _one(f) starts: the extension test of lines 116-117, then async with SEM
StartOne(u) ==
    /\ batch.up[u] = "new"
    /\ \E supported \in BOOLEAN :
          batch' = IF supported THEN Acquire(batch, u)
                   ELSE [batch EXCEPT !.up[u] = "http400"]
    /\ UNCHANGED <<lateVars, analysis, stretch, renderVars, merge, tmpfiles, keycall, picked>>

\* await _save_upload(f) returns or raises (line 119)
SaveUpload(u) ==
    /\ batch.up[u] = "saving"
    /\ \E raises \in BOOLEAN :
          batch' = IF raises THEN Release([batch EXCEPT !.up[u] = "raised"])
                   ELSE [batch EXCEPT !.up[u] = "analyzing"]
    /\ UNCHANGED <<lateVars, analysis, stretch, renderVars, merge, tmpfiles, keycall, picked>>

\* analyze_audio(p) and the building of the result return or raise
\* (lines 120-130); either way the block is left and the slot released
AnalyzeOne(u) ==
    /\ batch.up[u] = "analyzing"
    /\ \E raises \in BOOLEAN :
          batch' = Release([batch EXCEPT !.up[u] = IF raises THEN "raised" ELSE "done"])
    /\ UNCHANGED <<lateVars, analysis, stretch, renderVars, merge, tmpfiles, keycall, picked>>

NextBatch == \E u \in Uploads : StartOne(u) \/ SaveUpload(u) \/ AnalyzeOne(u)

\* an admitted upload's save and analysis each come to an end
SpecBatch ==
    /\ InitBatch
    /\ [][NextBatch]_vars
    /\ \A u \in Uploads : WF_vars(SaveUpload(u)) /\ WF_vars(AnalyzeOne(u))

\* C14: never more than 3 uploads are inside the save-and-analyze section;
\* every upload that leaves it, by finishing or by raising, gives its slot
\* back, so that an upload that waits is admitted in the end.
C14_AtMostThreeInside ==
    /\ [](/\ Cardinality(Inside(batch)) <= 3
          /\ batch.SEM + Cardinality(Inside(batch)) = 3)
    /\ \A u \in Uploads : (batch.up[u] = "waiting") ~> (batch.up[u] = "saving")

C14_Witness ==
    /\ Cardinality(Inside(batch)) = 3
    /\ \E u \in Uploads : batch.up[u] = "raised"
    /\ \E u \in Uploads :
          /\ batch.up[u] = "saving"
          /\ \E v \in Uploads : v > u /\ batch.up[v] \in {"done", "raised"}
    /\ batch.waiters # <<>>
(***************************************************************************)
(* Two calls at once that slice and stretch through files in DATA:         *)
(* render_mix (renderer.py:55-65) and align_preview (main.py:138-165).     *)
(* Neither takes a lock and each names its files by prefix, source hash    *)
(* and window only.  tmpfiles.files is the set of <<name, writer>> pairs   *)
(* of the files present; tmpfiles.clash records that a call has            *)
(* overwritten, read or deleted a file the other call wrote, or has found  *)
(* its own file gone.  Each call handles one item.                         *)
(***************************************************************************)
Calls == {1, 2}

TmpItems ==
    {[file_hash |-> h, start |-> 0, end |-> e] : h \in {"a", "b"}, e \in {100, 200}}

\* tmp_in and tmp_out of a call (renderer.py:57-58, main.py:143-144)
TmpIn(c) ==
    TmpName(IF c.kind = "render_mix" THEN "arr_in" ELSE "slice", c.it)

TmpOut(c) ==
    TmpName(IF c.kind = "render_mix" THEN "arr_out" ELSE "prev", c.it)

Present(files, name) == \E f \in files : f[1] = name

Mine(files, name, id) == <<name, id>> \in files

Others(files, name, id) == \E f \in files : f[1] = name /\ f[2] # id

\* sf.write / the binary's output: the file is created or replaced
WriteFile(files, name, id) == {f \in files : f[1] # name} \cup {<<name, id>>}

\* Path.unlink(missing_ok=True)
UnlinkFile(files, name) == {f \in files : f[1] # name}

InitCalls ==
    /\ analysis = NoAnalysis /\ stretch = NoStretch /\ RenderIdle /\ LateIdle
    /\ merge = NoMerge /\ batch = NoBatch /\ keycall = NoKeyCall /\ picked = NoPick
    /\ \E k2 \in {"render_mix", "align_preview"}, it1 \in TmpItems, it2 \in TmpItems :
          tmpfiles = [call |-> <<[kind |-> "render_mix", it |-> it1, pc |-> "slice"],
                                 [kind |-> k2, it |-> it2, pc |-> "slice"]>>,
                      files |-> {}, clash |-> FALSE]

\* slice_wav(src, tmp_in, start, end)  (renderer.py:59, main.py:148)
SliceToTmp(id) ==
    LET c == tmpfiles.call[id]
    IN  /\ c.pc = "slice"
        /\ tmpfiles' = [tmpfiles EXCEPT
              !.call[id].pc = "stretch",
              !.files = WriteFile(@, TmpIn(c), id),
              !.clash = @ \/ Others(tmpfiles.files, TmpIn(c), id)]
        /\ UNCHANGED <<lateVars, analysis, stretch, renderVars, merge, batch, keycall, picked>>

\* rubberband_time_pitch(tmp_in, tmp_out, ...)  (renderer.py:63, main.py:152):
\* reads tmp_in and writes tmp_out, or raises when tmp_in is gone
StretchTmp(id) ==
    LET c == tmpfiles.call[id]
    IN  /\ c.pc = "stretch"
        /\ IF Present(tmpfiles.files, TmpIn(c))
           THEN tmpfiles' = [tmpfiles EXCEPT
                   !.call[id].pc = IF c.kind = "render_mix" THEN "read" ELSE "respond",
                   !.files = WriteFile(@, TmpOut(c), id),
                   !.clash = @ \/ ~Mine(tmpfiles.files, TmpIn(c), id)
                               \/ Others(tmpfiles.files, TmpOut(c), id)]
           ELSE tmpfiles' = [tmpfiles EXCEPT
                   !.call[id].pc = IF c.kind = "render_mix" THEN "raised" ELSE "finally",
                   !.clash = TRUE]
        /\ UNCHANGED <<lateVars, analysis, stretch, renderVars, merge, batch, keycall, picked>>

\* y = _read_resample_stereo(tmp_out)  (renderer.py:64)
ReadTmpOut(id) ==
    LET c == tmpfiles.call[id]
    IN  /\ c.pc = "read"
        /\ tmpfiles' = [tmpfiles EXCEPT
              !.call[id].pc = IF Present(tmpfiles.files, TmpOut(c))
                              THEN "unlink" ELSE "raised",
              !.clash = @ \/ ~Mine(tmpfiles.files, TmpOut(c), id)]
        /\ UNCHANGED <<lateVars, analysis, stretch, renderVars, merge, batch, keycall, picked>>

\* tmp_in.unlink(missing_ok=True); tmp_out.unlink(missing_ok=True)
\* (renderer.py:65)
UnlinkTmp(id) ==
    LET c == tmpfiles.call[id]
    IN  /\ c.pc = "unlink"
        /\ tmpfiles' = [tmpfiles EXCEPT
              !.call[id].pc = "done",
              !.files = UnlinkFile(UnlinkFile(@, TmpIn(c)), TmpOut(c)),
              !.clash = @ \/ Others(tmpfiles.files, TmpIn(c), id)
                          \/ Others(tmpfiles.files, TmpOut(c), id)]
        /\ UNCHANGED <<lateVars, analysis, stretch, renderVars, merge, batch, keycall, picked>>

\* align_preview returns the FileResponse or raises 500; its finally clause
\* unlinks tmp_in (main.py:154-165)
PreviewFinally(id) ==
    LET c == tmpfiles.call[id]
    IN  /\ c.pc \in {"respond", "finally"}
        /\ tmpfiles' = [tmpfiles EXCEPT
              !.call[id].pc = IF c.pc = "respond" THEN "done" ELSE "raised",
              !.files = UnlinkFile(@, TmpIn(c)),
              !.clash = @ \/ Others(tmpfiles.files, TmpIn(c), id)]
        /\ UNCHANGED <<lateVars, analysis, stretch, renderVars, merge, batch, keycall, picked>>

NextCalls ==
    \E id \in Calls :
        \/ SliceToTmp(id)
        \/ StretchTmp(id)
        \/ ReadTmpOut(id)
        \/ UnlinkTmp(id)
        \/ PreviewFinally(id)

SpecCalls == InitCalls /\ [][NextCalls]_vars

\* C15: of two calls running at once, render_mix with render_mix or
\* render_mix with align_preview, neither ever reads, overwrites or deletes
\* an intermediate file the other wrote, also when both handle the same
\* source hash, start and end.
C15_NoSharedIntermediateFile ==
    tmpfiles.clash = FALSE
(***************************************************************************)
(* Key strings.  A string is the sequence of its characters, so that the   *)
(* concatenation, endswith, replace and strip of the code are computed.    *)
(* Python's None is the empty sequence and a pitch class pc is <<pc>>.     *)
(***************************************************************************)
\* processor.py:8 and app.py:28
KEYS ==
    << <<"C">>, <<"C", "#">>, <<"D">>, <<"D", "#">>, <<"E">>, <<"F">>, <<"F", "#">>,
       <<"G">>, <<"G", "#">>, <<"A">>, <<"A", "#">>, <<"B">> >>

MAJOR_KEYS == KEYS

\* app.py:29
MINOR_KEYS == [k \in 1..Len(MAJOR_KEYS) |-> MAJOR_KEYS[k] \o <<"m">>]

Unknown == <<"U", "n", "k", "n", "o", "w", "n">>

\* app.py:35
PITCH_CLASS ==
    (<<"C">> :> 0) @@ (<<"C", "#">> :> 1) @@ (<<"D", "b">> :> 1) @@ (<<"D">> :> 2) @@
    (<<"D", "#">> :> 3) @@ (<<"E", "b">> :> 3) @@ (<<"E">> :> 4) @@ (<<"F">> :> 5) @@
    (<<"F", "#">> :> 6) @@ (<<"G", "b">> :> 6) @@ (<<"G">> :> 7) @@ (<<"G", "#">> :> 8) @@
    (<<"A", "b">> :> 8) @@ (<<"A">> :> 9) @@ (<<"A", "#">> :> 10) @@ (<<"B", "b">> :> 10) @@
    (<<"B">> :> 11)

\* processor.analyze_audio, lines 122-126: the strongest pitch class and a
\* suffix chosen by the spectral centroid
BackendKeyOf(pitch_class, brightness_below_2000) ==
    KEYS[pitch_class + 1] \o (IF brightness_below_2000 THEN <<"m">> ELSE <<"M">>)

\* app._estimate_key, lines 74-79
_estimate_key(i_maj, i_min, major_scores_at_least) ==
    IF major_scores_at_least THEN MAJOR_KEYS[i_maj + 1] ELSE MINOR_KEYS[i_min + 1]

\* str.endswith, str.strip, str.replace(pat, ""), str.lower, pat in str
EndsWith(k, pat) ==
    Len(k) >= Len(pat) /\ SubSeq(k, Len(k) - Len(pat) + 1, Len(k)) = pat

RECURSIVE Strip(_)
Strip(k) ==
    IF k = <<>> THEN k
    ELSE IF Head(k) = " " THEN Strip(Tail(k))
    ELSE IF k[Len(k)] = " " THEN Strip(SubSeq(k, 1, Len(k) - 1))
    ELSE k

RECURSIVE Remove(_, _)
Remove(k, pat) ==
    IF Len(k) < Len(pat) THEN k
    ELSE IF SubSeq(k, 1, Len(pat)) = pat THEN Remove(SubSeq(k, Len(pat) + 1, Len(k)), pat)
    ELSE <<Head(k)>> \o Remove(Tail(k), pat)

LowerChar(ch) ==
    CASE ch = "A" -> "a" [] ch = "B" -> "b" [] ch = "C" -> "c" [] ch = "D" -> "d"
      [] ch = "E" -> "e" [] ch = "F" -> "f" [] ch = "G" -> "g" [] ch = "H" -> "h"
      [] ch = "I" -> "i" [] ch = "M" -> "m" [] ch = "N" -> "n" [] ch = "U" -> "u"
      [] OTHER -> ch

Lower(k) == [j \in 1..Len(k) |-> LowerChar(k[j])]

Contains(k, pat) ==
    \E j \in 1..(Len(k) - Len(pat) + 1) : SubSeq(k, j, j + Len(pat) - 1) = pat

Maj == <<"m", "a", "j">>
Mino == <<"m", "i", "n">>

\* app._parse_key, lines 37-44
_parse_key(k0) ==
    IF k0 = <<>> \/ k0 = Unknown THEN [root_pc |-> <<>>, mode |-> "maj"]
    ELSE LET k == Strip(k0)
             mode == IF EndsWith(k, <<"m">>) \/ Contains(Lower(k), Mino)
                     THEN "min" ELSE "maj"
             root0 == IF EndsWith(k, <<"m">>) THEN SubSeq(k, 1, Len(k) - 1) ELSE k
             root == Strip(Remove(Remove(root0, Maj), Mino))
         IN  [root_pc |-> IF root \in DOMAIN PITCH_CLASS THEN <<PITCH_CLASS[root]>>
                          ELSE <<>>,
              mode |-> mode]

\* the shortest direction, lines 51-53
Shortest_from_six(delta) == IF delta >= 6 THEN delta - 12 ELSE delta

Shortest(delta) == IF delta > 6 THEN delta - 12 ELSE delta

\* app.semitone_delta, lines 46-54
semitone_delta(from_key, to_key) ==
    LET fr == _parse_key(from_key).root_pc
        tr == _parse_key(to_key).root_pc
    IN  IF fr = <<>> \/ tr = <<>> THEN 0
        ELSE Shortest((tr[1] - fr[1]) % 12)
(***************************************************************************)
(* SpecKeys: one call that produces a key (processor.analyze_audio, or     *)
(* app.upload through app.analyze_audio and _estimate_key) or compares two *)
(* (app.semitone_delta).                                                   *)
(***************************************************************************)
PitchNames == DOMAIN PITCH_CLASS

\* the ways of writing the key on a pitch-class name that _parse_key takes
\* apart: the name alone, with "m", with "maj" or "min", and padded
Spellings(name) ==
    {name, name \o <<"m">>, name \o Maj, name \o Mino, <<" ">> \o name \o <<"m", " ">>}

\* strings that name no pitch class
NoKeys ==
    {<<>>, Unknown, <<"H">>, <<"H", "m">>, <<"C", "M">>, <<"c">>, <<"m">>, Mino,
     <<"A", " ", "m", "i", "n", "o", "r">>}

KeyInputs == UNION {Spellings(name) : name \in PitchNames} \cup NoKeys

InitKeys ==
    /\ analysis = NoAnalysis /\ stretch = NoStretch /\ RenderIdle /\ LateIdle
    /\ merge = NoMerge /\ batch = NoBatch /\ tmpfiles = NoCalls /\ picked = NoPick
    /\ keycall = NoKeyCall

\* processor.analyze_audio, lines 122-126
BackendKey ==
    /\ keycall.fn = "none"
    /\ \E pitch_class \in 0..11, dark \in BOOLEAN :
          keycall' = [keycall EXCEPT !.fn = "processor.analyze_audio",
                                     !.key = BackendKeyOf(pitch_class, dark)]
    /\ UNCHANGED <<lateVars, analysis, stretch, renderVars, merge, batch, tmpfiles, picked>>

\* app.upload, lines 413-418: analyze_audio (lines 81-89) or, when it
\* raises, "Unknown"
UploadKey ==
    /\ keycall.fn = "none"
    /\ \E i_maj \in 0..11, i_min \in 0..11, major \in BOOLEAN, raises \in BOOLEAN :
          keycall' = [keycall EXCEPT
                         !.fn = "app.upload",
                         !.key = IF raises THEN Unknown
                                 ELSE _estimate_key(i_maj, i_min, major)]
    /\ UNCHANGED <<lateVars, analysis, stretch, renderVars, merge, batch, tmpfiles, picked>>

SemitoneDelta ==
    /\ keycall.fn = "none"
    /\ \E from_key \in KeyInputs, to_key \in KeyInputs :
          keycall' = [keycall EXCEPT !.fn = "semitone_delta",
                                     !.from_key = from_key, !.to_key = to_key,
                                     !.delta = semitone_delta(from_key, to_key)]
    /\ UNCHANGED <<lateVars, analysis, stretch, renderVars, merge, batch, tmpfiles, picked>>

NextKeys == BackendKey \/ UploadKey \/ SemitoneDelta

SpecKeys == InitKeys /\ [][NextKeys]_vars

\* the key strings of the data model: the 12 sharp names, the same with a
\* trailing "m", and the unknown sentinel
DataModelKeys ==
    {KEYS[k] : k \in 1..12} \cup {KEYS[k] \o <<"m">> : k \in 1..12} \cup {Unknown}

\* C16: the key of every analysis result is one of the 12 pitch-class names
\* alone, one of them followed by a single "m", or the unknown sentinel.
C16_KeyInDataModel ==
    keycall.fn \in {"processor.analyze_audio", "app.upload"}
        => keycall.key \in DataModelKeys

\* C17: for two recognised keys semitone_delta returns the d of least size
\* with (root(from) + d) mod 12 = root(to), between -5 and 6 with +6 for a
\* tritone, whatever the modes; it returns 0 when either key names no pitch
\* class.
C17_MinimalSignedDelta ==
    keycall.fn = "semitone_delta" =>
        /\ \A n1 \in PitchNames, n2 \in PitchNames :
              (keycall.from_key \in Spellings(n1) /\ keycall.to_key \in Spellings(n2)) =>
                  LET d == keycall.delta
                  IN  /\ d \in -5..6
                      /\ (PITCH_CLASS[n1] + d) % 12 = PITCH_CLASS[n2]
                      /\ \A e \in -12..12 :
                            (PITCH_CLASS[n1] + e) % 12 = PITCH_CLASS[n2] => Abs(d) <= Abs(e)
                      /\ \A f \in Spellings(n1), t \in Spellings(n2) :
                            semitone_delta(f, t) = d
        /\ (keycall.from_key \in NoKeys \/ keycall.to_key \in NoKeys) => keycall.delta = 0

C17_Witness ==
    /\ keycall.fn = "semitone_delta"
    /\ keycall.from_key = <<"C", "m">>
    /\ keycall.to_key = <<"G", "b">>
    /\ keycall.delta = 6
(***************************************************************************)
(* The summing and master fade steps of render_mix, sample by sample.      *)
(***************************************************************************)
\* the weight on the incoming item at the k-th of w window samples
Ramp(w, k) == IF w = 1 THEN RInt(0) ELSE Rat(k - 1, w - 1)

OneMinus(a) == RAdd(RInt(1), RMul(RInt(-1), a))

\* what placing item e with a crossfade window of w samples makes of the mix
PlacedLinearly(old, new, e, w) ==
    /\ Len(new) = Len(old)
    /\ \A p \in 1..Len(new) : \A c \in 1..TARGET_CH :
          LET k == p - e.start
          IN  IF k < 1 \/ k > Len(e.y) THEN new[p][c] = old[p][c]
              ELSE IF k <= w
                   THEN new[p][c] = RAdd(RMul(old[p][c], OneMinus(Ramp(w, k))),
                                         RMul(RInt(e.y[k][c]), Ramp(w, k)))
                   ELSE new[p][c] = RAdd(old[p][c], RInt(e.y[k][c]))

ItemPlaced == pc = "sum" /\ Len(applied') = Len(applied) + 1

\* C18 (as stated): inside an item's crossfade window each output sample is
\* existing * w_out + incoming * w_in with w_in + w_out = 1, w_in rising
\* linearly from 0 at the item's first sample to 1 at the window's last;
\* after the window the output is existing + incoming; outside the item's
\* range the mix is unchanged.
C18_CrossfadeRisesToOne ==
    [][ItemPlaced =>
          LET j == Len(applied')
              w == applied'[j]
          IN  /\ PlacedLinearly(mix, mix', rendered[j], w)
              /\ w >= 1 => Ramp(w, 1) = RInt(0) /\ Ramp(w, w) = RInt(1)]_vars

\* C18 (amended): the same, with w_in = (k - 1) / (w - 1) at the k-th of
\* w > 1 window samples, and w_in = 0 on a window of a single sample.
C18_CrossfadeLinear ==
    [][ItemPlaced =>
          LET j == Len(applied')
              w == applied'[j]
          IN  /\ PlacedLinearly(mix, mix', rendered[j], w)
              /\ w > 1 => Ramp(w, 1) = RInt(0) /\ Ramp(w, w) = RInt(1)]_vars

C18_Witness ==
    /\ Len(applied) = 2
    /\ Overlap(rendered[1], rendered[2])
    /\ applied[2] >= 3
    /\ Len(rendered[2].y) > applied[2]
    /\ rendered[2].start > rendered[1].start

\* the frames a master fade of ms milliseconds covers (renderer.py:99-100)
FadeTail(ms, length) == Min((TARGET_SR * ms) \div 1000, length)

\* C19: a master fade-out of n > 0 samples multiplies only the last
\* min(n, length) samples by a gain falling linearly from 1 to 0, the same
\* on both channels, so that the last sample is 0 and the samples before the
\* tail are unchanged; a fade-out of 0 changes nothing.
C19_MasterFadeOnlyTail ==
    [][(pc = "fade" /\ pc' = "normalize") =>
          LET ms == req.master_fade_out_ms
              n == FadeTail(ms, Len(mix))
              before == Len(mix) - n
          IN  /\ Len(mix') = Len(mix)
              /\ ms <= 0 => mix' = mix
              /\ ms > 0 =>
                    /\ n >= 1
                    /\ \A p \in 1..before : mix'[p] = mix[p]
                    /\ \A p \in (before + 1)..Len(mix) : \A c \in 1..TARGET_CH :
                          mix'[p][c] = RMul(mix[p][c],
                                            IF n = 1 THEN RInt(1)
                                            ELSE Rat(n - (p - before), n - 1))
                    /\ mix'[Len(mix)] = Silence]_vars

C19_Witness ==
    /\ pc = "normalize"
    /\ req.master_fade_out_ms > 0
    /\ FadeTail(req.master_fade_out_ms, Len(mix)) >= 3
    /\ Len(mix) > FadeTail(req.master_fade_out_ms, Len(mix))
    /\ mix[Len(mix)] = Silence
    /\ mix[Len(mix) - 1] # Silence
    /\ mix[1] # Silence
(***************************************************************************)
(* segmentation._peak_pick, the enforcement of the minimum gap (lines      *)
(* 54-65).  peaks is what lines 50-53 leave: frame indices (from 0) in     *)
(* increasing order, as librosa.util.peak_pick returns them; nov is the    *)
(* novelty curve, of which the loop reads the values at the peaks only, so *)
(* the other frames are given novelty 0.                                   *)
(***************************************************************************)
MaxNovFrames == 6     \* frames of the novelty curve
MaxGap == 3           \* largest min_gap, in frames

NovLevels == {1, 2, 3}

NoLast == -(10 ^ 9)   \* segmentation.py:57  last = -10**9

\* the test of line 59
FarEnough_always(p, last, min_gap) == TRUE

FarEnough(p, last, min_gap) == p - last >= min_gap

\* the loop of lines 58-64 from the k-th peak on
RECURSIVE PeakPickLoop(_, _, _, _, _, _)
PeakPickLoop(nov, peaks, min_gap, k, pruned, last) ==
    IF k > Len(peaks) THEN pruned
    ELSE LET p == peaks[k]
         IN  IF FarEnough(p, last, min_gap)
             THEN PeakPickLoop(nov, peaks, min_gap, k + 1, Append(pruned, p), p)
             ELSE IF nov[p + 1] > nov[last + 1]
                  THEN PeakPickLoop(nov, peaks, min_gap, k + 1,
                                    [pruned EXCEPT ![Len(pruned)] = p], p)
                  ELSE PeakPickLoop(nov, peaks, min_gap, k + 1, pruned, last)

_peak_pick(nov, peaks, min_gap) == PeakPickLoop(nov, peaks, min_gap, 1, <<>>, NoLast)

\* the peaks of a curve: the frames of novelty above 0, in increasing order
PeaksOf(nov) == SortedSeq({f - 1 : f \in {g \in 1..Len(nov) : nov[g] > 0}})

InitPick ==
    /\ analysis = NoAnalysis /\ stretch = NoStretch /\ RenderIdle /\ LateIdle
    /\ merge = NoMerge /\ batch = NoBatch /\ tmpfiles = NoCalls /\ keycall = NoKeyCall
    /\ \E nov \in [1..MaxNovFrames -> {0} \cup NovLevels], min_gap \in 0..MaxGap :
          picked = [fn |-> "none", nov |-> nov, peaks |-> PeaksOf(nov),
                    min_gap |-> min_gap, pruned |-> <<>>]

PeakPick ==
    /\ picked.fn = "none"
    /\ picked' = [picked EXCEPT !.fn = "_peak_pick",
                                !.pruned = _peak_pick(picked.nov, picked.peaks,
                                                      picked.min_gap)]
    /\ UNCHANGED <<lateVars, analysis, stretch, renderVars, merge, batch, tmpfiles, keycall>>

NextPick == PeakPick

SpecPick == InitPick /\ [][NextPick]_vars

\* C20: any two consecutive peaks that _peak_pick returns are at least
\* min_gap frames apart, and the peaks it returns are strictly increasing.
C20_PeaksKeepMinGap ==
    picked.fn = "_peak_pick" =>
        \A k \in 1..(Len(picked.pruned) - 1) :
            /\ picked.pruned[k + 1] - picked.pruned[k] >= picked.min_gap
            /\ picked.pruned[k + 1] > picked.pruned[k]

C20_Witness ==
    /\ picked.fn = "_peak_pick"
    /\ picked.min_gap = MaxGap
    /\ Len(picked.peaks) >= 4
    /\ Len(picked.pruned) = 2
    /\ picked.pruned[1] # picked.peaks[1]
    /\ picked.pruned[2] - picked.pruned[1] = MaxGap

\* the candidates _peak_pick was given and did not return
Discarded == {picked.peaks[k] : k \in 1..Len(picked.peaks)} \
             {picked.pruned[k] : k \in 1..Len(picked.pruned)}

\* C21: every candidate that _peak_pick discards lies closer than min_gap
\* frames to some peak it returns whose novelty is at least as high.
C21_DiscardedNearAKeptHigherPeak ==
    picked.fn = "_peak_pick" =>
        \A p \in Discarded :
            \E k \in 1..Len(picked.pruned) :
                /\ Abs(picked.pruned[k] - p) < picked.min_gap
                /\ picked.nov[picked.pruned[k] + 1] >= picked.nov[p + 1]

\* C22: when the merge loop ends, either exactly one segment remains or
\* every remaining segment is at least min_seg_s long.
C22_NoShortSegmentLeft ==
    merge.pc = "done" =>
        \/ Len(merge.segs) = 1
        \/ \A k \in 1..Len(merge.segs) : merge.segs[k][2] - merge.segs[k][1] >= min_seg_s

C22_Witness ==
    /\ merge.pc = "done"
    /\ Len(merge.segs) >= 2
    /\ merge.merges >= 3
    /\ \E k \in 1..Len(merge.segs_idx) :
          merge.segs_idx[k][2] - merge.segs_idx[k][1] < min_seg_s

\* C23: an interior short segment is merged after comparing scores sampled
\* at its own start frame (left) and its own end frame (right) as they are
\* at that time; a first or last segment is merged without a comparison.
C23_ComparedAtOwnBoundaries ==
    \A k \in 1..Len(merge.cmp) :
        LET c == merge.cmp[k]
        IN  /\ c.where \in {"first", "last"} => c.sampled = <<>>
            /\ c.where = "interior" => c.sampled = <<c.s, c.e>>

\* C26: through every merge the first segment starts at 0, the last ends at
\* the final frame, and each segment ends where the next one starts.
C26_SegmentsStayContiguous ==
    merge.pc # "idle" =>
        /\ merge.segs[1][1] = 0
        /\ merge.segs[Len(merge.segs)][2] = merge.segs_idx[Len(merge.segs_idx)][2]
        /\ \A k \in 1..(Len(merge.segs) - 1) : merge.segs[k][2] = merge.segs[k + 1][1]

C26_Witness ==
    /\ merge.pc = "loop"
    /\ merge.merges >= 2
    /\ Len(merge.segs) >= 3
    /\ merge.cmp # <<>>
    /\ merge.cmp[1].where = "interior"

(***************************************************************************)
(* The labelling passes of segmentation.py: the de-flicker pass that ends  *)
(* segment_and_label and map_letters_to_music_labels.  A segment is a      *)
(* record of start, end (in seconds) and label.                            *)
(***************************************************************************)
MaxSegs == 4          \* most segments handed to a pass

Letters == {"A", "B", "C"}

\* segment lengths on both sides of the tests of lines 237 and 240
Durations == {5, 20, 40}

IntroBelow == 30      \* segmentation.py:237  duration < 30
OutroAbove == 10      \* segmentation.py:240  duration > 10
Confidence == 8       \* segmentation.py:256  "confidence": 0.8, in tenths

earlyVars == <<merge, batch, tmpfiles, keycall, picked>>

EarlyIdle ==
    /\ merge = NoMerge
    /\ batch = NoBatch
    /\ tmpfiles = NoCalls
    /\ keycall = NoKeyCall
    /\ picked = NoPick

RECURSIVE SumTo(_, _)
SumTo(dur, k) == IF k = 0 THEN 0 ELSE dur[k] + SumTo(dur, k - 1)

\* lines 199-200: the segments packed with their letters, one after another
Packed(dur, let) ==
    [k \in 1..Len(dur) |->
        [start |-> SumTo(dur, k - 1), end |-> SumTo(dur, k), label |-> let[k]]]

\* line 205, without the assignment
Collapse_keeps_end(cleaned, seg) == cleaned

\* line 205: cleaned[-1]["end"] = seg["end"]
Collapse(cleaned, seg) == [cleaned EXCEPT ![Len(cleaned)].end = seg.end]

\* lines 202-208 from the k-th segment on
RECURSIVE DeFlickerLoop(_, _, _)
DeFlickerLoop(out, k, cleaned) ==
    IF k > Len(out) THEN cleaned
    ELSE LET seg == out[k]
         IN  IF cleaned # <<>> /\ seg.label = cleaned[Len(cleaned)].label
             THEN DeFlickerLoop(out, k + 1, Collapse(cleaned, seg))
             ELSE DeFlickerLoop(out, k + 1, Append(cleaned, seg))

DeFlicker(out) == DeFlickerLoop(out, 1, <<>>)

\* lines 221-224: label_counts, and the place a letter entered the dict
LabelCount(segments, label) ==
    Cardinality({k \in 1..Len(segments) : segments[k].label = label})

FirstSeen(segments, label) ==
    CHOOSE k \in 1..Len(segments) :
        /\ segments[k].label = label
        /\ \A j \in 1..(k - 1) : segments[j].label # label

LabelsOf(segments) == {segments[k].label : k \in 1..Len(segments)}

\* max over the dict, taking the last of the letters that tie
MostRepeated_last_of_ties(segments) ==
    CHOOSE l \in LabelsOf(segments) :
        \A m \in LabelsOf(segments) :
            \/ LabelCount(segments, l) > LabelCount(segments, m)
            \/ /\ LabelCount(segments, l) = LabelCount(segments, m)
               /\ FirstSeen(segments, l) >= FirstSeen(segments, m)

\* line 227: max(label_counts.items(), key=count) returns the first of the
\* letters that tie, in the order the dict received them
MostRepeated(segments) ==
    CHOOSE l \in LabelsOf(segments) :
        \A m \in LabelsOf(segments) :
            \/ LabelCount(segments, l) > LabelCount(segments, m)
            \/ /\ LabelCount(segments, l) = LabelCount(segments, m)
               /\ FirstSeen(segments, l) <= FirstSeen(segments, m)

Named(name) == [name |-> name, n |-> 0]

\* f"Verse {verse_counter}"
Verse(verse_counter) == [name |-> "Verse", n |-> verse_counter]

\* lines 237-250 for the segment at index i (from 0)
MusicalLabel(segments, i, verse_counter) ==
    LET seg == segments[i + 1]
        duration == seg.end - seg.start
        label == seg.label
    IN  IF i = 0 /\ duration < IntroBelow THEN Named("Intro")
        ELSE IF i = Len(segments) - 1 /\ duration > OutroAbove THEN Named("Outro")
        ELSE IF label = MostRepeated(segments) /\ LabelCount(segments, label) >= 2
             THEN Named("Chorus")
        ELSE IF LabelCount(segments, label) = 1 /\ i \notin {0, Len(segments) - 1}
             THEN Named("Bridge")
        ELSE Verse(verse_counter)

\* lines 234-260 from index i on
RECURSIVE MapLoop(_, _, _, _)
MapLoop(segments, i, verse_counter, result) ==
    IF i >= Len(segments) THEN result
    ELSE LET musical_label == MusicalLabel(segments, i, verse_counter)
             entry == [start |-> segments[i + 1].start,
                       end |-> segments[i + 1].end,
                       label |-> musical_label,
                       confidence |-> Confidence,
                       original_label |-> segments[i + 1].label]
         IN  MapLoop(segments, i + 1,
                     IF musical_label.name = "Verse" THEN verse_counter + 1
                     ELSE verse_counter,
                     Append(result, entry))

map_letters_to_music_labels(segments) ==
    IF segments = <<>> THEN segments ELSE MapLoop(segments, 0, 1, <<>>)

InitLabel ==
    /\ analysis = NoAnalysis /\ stretch = NoStretch /\ RenderIdle /\ EarlyIdle
    /\ jobs = NoJobs /\ tempo = NoTempo
    /\ \E n \in 0..MaxSegs :
          \E dur \in [1..n -> Durations], let \in [1..n -> Letters] :
              labelcall = [fn |-> "none", segs |-> Packed(dur, let), out |-> <<>>]

DeFlickerPass ==
    /\ labelcall.fn = "none"
    /\ labelcall' = [labelcall EXCEPT !.fn = "de-flicker", !.out = DeFlicker(labelcall.segs)]
    /\ UNCHANGED <<analysis, stretch, renderVars, earlyVars, jobs, tempo>>

MapLetters ==
    /\ labelcall.fn = "none"
    /\ labelcall' = [labelcall EXCEPT !.fn = "map_letters_to_music_labels",
                                      !.out = map_letters_to_music_labels(labelcall.segs)]
    /\ UNCHANGED <<analysis, stretch, renderVars, earlyVars, jobs, tempo>>

NextLabel == DeFlickerPass \/ MapLetters

SpecLabel == InitLabel /\ [][NextLabel]_vars

\* the input segments from the a-th to the b-th form one run of a letter
RunOf(segs, a, b, o) ==
    /\ segs[a].start = o.start
    /\ segs[b].end = o.end
    /\ \A k \in a..b : segs[k].label = o.label

MostFrequent(segs, label) ==
    \A m \in LabelsOf(segs) : LabelCount(segs, label) >= LabelCount(segs, m)

\* the letter occurs most often and, of the letters that do, came first
FirstMostFrequent(segs, label) ==
    /\ MostFrequent(segs, label)
    /\ \A m \in LabelsOf(segs) :
          MostFrequent(segs, m) =>
              \A k \in 1..Len(segs) :
                  segs[k].label = m => \E j \in 1..k : segs[j].label = label

\* C25 as stated: every segment whose letter is the most frequent one and
\* occurs at least twice is labeled "Chorus", whatever its position.
C25_MostFrequentIsChorus ==
    labelcall.fn = "map_letters_to_music_labels" =>
        \A k \in 1..Len(labelcall.segs) :
            LET label == labelcall.segs[k].label
            IN  MostFrequent(labelcall.segs, label) /\ LabelCount(labelcall.segs, label) >= 2
                    => labelcall.out[k].label.name = "Chorus"

\* C25 amended: a segment whose letter occurs at least twice and is the
\* most frequent one (the first to occur of those that tie) is labeled
\* "Chorus" unless it is the first segment and shorter than 30 s, which is
\* "Intro", or the last segment and longer than 10 s, which is "Outro".
C25_ChorusAfterIntroAndOutro ==
    labelcall.fn = "map_letters_to_music_labels" =>
        \A k \in 1..Len(labelcall.segs) :
            LET seg == labelcall.segs[k]
                intro == k = 1 /\ seg.end - seg.start < 30
                outro == k = Len(labelcall.segs) /\ seg.end - seg.start > 10
            IN  FirstMostFrequent(labelcall.segs, seg.label)
                /\ LabelCount(labelcall.segs, seg.label) >= 2
                    => labelcall.out[k].label.name =
                          IF intro THEN "Intro" ELSE IF outro THEN "Outro" ELSE "Chorus"

C25_Witness ==
    /\ labelcall.fn = "map_letters_to_music_labels"
    /\ Len(labelcall.out) = MaxSegs
    /\ labelcall.out[1].label.name = "Intro"
    /\ labelcall.out[2].label.name = "Bridge"
    /\ labelcall.out[3].label.name = "Chorus"
    /\ labelcall.out[4].label.name = "Outro"
    /\ labelcall.out[1].original_label = labelcall.out[3].original_label
    /\ labelcall.out[4].original_label = labelcall.out[3].original_label

(***************************************************************************)
(* render_mix as one function of the placed buffers (renderer.py lines     *)
(* 77-109): allocate, sum in list order, fade, normalize.                  *)
(***************************************************************************)
RECURSIVE SumAll(_, _, _, _)
SumAll(buf, entries, k, xfade_n) ==
    IF k > Len(entries) THEN buf
    ELSE SumAll(SumItem(buf, entries[k].start, entries[k].y, xfade_n), entries, k + 1,
                xfade_n)

RECURSIVE MaxEnd(_, _)
MaxEnd(entries, k) ==
    IF k > Len(entries) THEN 0
    ELSE Max(entries[k].start + Len(entries[k].y), MaxEnd(entries, k + 1))

MixOf(entries, request) ==
    LET ends == MaxEnd(entries, 1)
        total == IF request.bars = NoBars THEN ends
                 ELSE Max(ends, StartSample(request.bars[1], request.project_bpm))
        summed == SumAll([k \in 1..(total + 1) |-> Silence], entries, 1,
                         XfadeN(request.crossfade_ms))
    IN  Normalize(MasterFade(summed, Max(0, request.master_fade_out_ms)))

\* the orderings of a list of n entries
Orderings(n) == {f \in [1..n -> 1..n] : \A a, b \in 1..n : f[a] = f[b] => a = b}

Reordered(entries, f) == [k \in 1..Len(entries) |-> entries[f[k]]]

PairwiseDisjoint(entries) ==
    \A a, b \in 1..Len(entries) : a # b => ~Overlap(entries[a], entries[b])

\* C27: when the placed sample ranges of the items are pairwise disjoint,
\* the buffer render_mix produces is the one it produces for every other
\* ordering of the same items.
C27_OrderOfDisjointItemsIsFree ==
    pc = "done" /\ PairwiseDisjoint(rendered) =>
        \A f \in Orderings(Len(rendered)) : MixOf(Reordered(rendered, f), req) = mix

C27_Witness ==
    /\ pc = "done"
    /\ Len(rendered) = 2
    /\ PairwiseDisjoint(rendered)
    /\ rendered[1].start > rendered[2].start
    /\ Len(rendered[1].y) >= 2 /\ Len(rendered[2].y) >= 2
    /\ XfadeN(req.crossfade_ms) >= 2
    /\ req.master_fade_out_ms > 0

(***************************************************************************)
(* POST /api/mix, the build_mix thread it starts and GET /api/jobs/<id>    *)
(* (app.py lines 459-528).  jobs.JOBS is the entry of the one job_id the   *)
(* POST creates (<<>> before); build_mix runs in a threading.Thread, so    *)
(* each of its statements is a step of its own and a GET may be served     *)
(* between any two.  A result is <<>> for None or <<text>>.                *)
(***************************************************************************)
MaxTracks == 2        \* most tracks in a payload
MaxReads == 2         \* most GETs a client makes

OutId == "mix.wav"    \* out_id = f"{uuid.uuid4()}.wav"

Stored == {"f"}       \* the file ids present in STORE

\* speed on both sides of the atempo range, and 0
Speeds == {Rat(0, 1), Rat(1, 1), Rat(4, 1), Rat(1, 8)}

Tracks == {[file_id |-> f, speed |-> v] : f \in {"f", "gone"}, v \in Speeds}

Payloads == {<<>>} \cup UNION {[1..n -> Tracks] : n \in 1..MaxTracks}

Half == Rat(1, 2)     \* app.py:485  0.5
Two == Rat(2, 1)      \* app.py:485  2.0

\* the while test of line 485
OutOfRange(sp) == RLess(sp, Half) \/ RLess(Two, sp)

\* lines 486-488: sp/step when sp > 2.0, sp/0.5 otherwise
AtempoStep(sp) == IF RLess(Two, sp) THEN RMul(sp, Half) ELSE RMul(sp, Two)

JobEntry == jobs.JOBS[1]

\* JOBS[job_id]["status"] = status
SetStatus(status) ==
    [jobs EXCEPT !.JOBS = <<[JobEntry EXCEPT !.status = status]>>, !.was = Append(@, status)]

\* JOBS[job_id]["result"] = result
SetResult(j, result) == [j EXCEPT !.JOBS = <<[j.JOBS[1] EXCEPT !.result = <<result>>]>>]

Raise(j, e) == [j EXCEPT !.th = "except", !.e = <<e>>]

jobsFrame == <<analysis, stretch, renderVars, earlyVars, labelcall, tempo>>

InitJobs ==
    /\ analysis = NoAnalysis /\ stretch = NoStretch /\ RenderIdle /\ EarlyIdle
    /\ labelcall = NoLabelCall /\ tempo = NoTempo
    /\ \E tracks \in Payloads : jobs = [NoJobs EXCEPT !.tracks = tracks]

\* POST /api/mix (lines 513-522)
Mix ==
    /\ jobs.reply = <<>>
    /\ IF jobs.tracks = <<>>
       THEN jobs' = [jobs EXCEPT !.reply = <<400>>]
       ELSE jobs' = [jobs EXCEPT !.JOBS = <<[status |-> "queued", result |-> <<>>]>>,
                                 !.was = <<"queued">>,
                                 !.th = "start",
                                 !.reply = <<200>>]
    /\ UNCHANGED jobsFrame

\* GET /api/jobs/<job_id> (lines 524-528), by a client that was given the id
JobStatus ==
    /\ jobs.JOBS # <<>>
    /\ Len(jobs.reads) < MaxReads
    /\ jobs' = [jobs EXCEPT !.reads = Append(@, JobEntry)]
    /\ UNCHANGED jobsFrame

\* line 466
SetRunning ==
    /\ jobs.th = "start"
    /\ jobs' = [SetStatus("running") EXCEPT !.th = "emit5"]
    /\ UNCHANGED jobsFrame

\* line 467: progress_emit(room, 5, "Preparing"), which may raise
EmitPreparing ==
    /\ jobs.th = "emit5"
    /\ \E ok \in BOOLEAN :
          jobs' = IF ok THEN [jobs EXCEPT !.th = "tracks", !.i = 1]
                  ELSE Raise(jobs, "emit failed")
    /\ UNCHANGED jobsFrame

\* lines 473-483: the source of the track at hand is looked up
TrackSource ==
    /\ jobs.th = "tracks"
    /\ LET t == jobs.tracks[jobs.i]
       IN  jobs' = IF t.file_id \notin Stored THEN Raise(jobs, "missing")
                   ELSE [jobs EXCEPT !.th = "atempo", !.sp = <<t.speed>>]
    /\ UNCHANGED jobsFrame

\* one pass of the loop of lines 485-488
AtempoPass ==
    /\ jobs.th = "atempo"
    /\ OutOfRange(jobs.sp[1])
    /\ jobs' = [jobs EXCEPT !.sp = <<AtempoStep(jobs.sp[1])>>]
    /\ UNCHANGED jobsFrame

\* lines 489-493: the loop is left and the filter of the track is built
TrackFiltered ==
    /\ jobs.th = "atempo"
    /\ ~OutOfRange(jobs.sp[1])
    /\ jobs' = IF jobs.i = Len(jobs.tracks) THEN [jobs EXCEPT !.th = "emit40", !.sp = <<>>]
               ELSE [jobs EXCEPT !.th = "tracks", !.i = @ + 1, !.sp = <<>>]
    /\ UNCHANGED jobsFrame

\* line 495: progress_emit(room, 40, "Mixing")
EmitMixing ==
    /\ jobs.th = "emit40"
    /\ \E ok \in BOOLEAN :
          jobs' = IF ok THEN [jobs EXCEPT !.th = "ffmpeg"] ELSE Raise(jobs, "emit failed")
    /\ UNCHANGED jobsFrame

\* lines 496-503: ffmpeg returns, with a return code of 0 or not
Ffmpeg ==
    /\ jobs.th = "ffmpeg"
    /\ \E returncode \in {0, 1} :
          jobs' = IF returncode # 0 THEN Raise(jobs, "stderr")
                  ELSE [jobs EXCEPT !.th = "set done", !.out_id = <<OutId>>]
    /\ UNCHANGED jobsFrame

\* line 505
SetDone ==
    /\ jobs.th = "set done"
    /\ jobs' = [SetStatus("done") EXCEPT !.th = "set result"]
    /\ UNCHANGED jobsFrame

\* line 506
SetDoneResult ==
    /\ jobs.th = "set result"
    /\ jobs' = [SetResult(jobs, jobs.out_id[1]) EXCEPT !.th = "emit100"]
    /\ UNCHANGED jobsFrame

\* line 507: progress_emit(room, 100, "Done")
EmitDone ==
    /\ jobs.th = "emit100"
    /\ \E ok \in BOOLEAN :
          jobs' = IF ok THEN [jobs EXCEPT !.th = "end"] ELSE Raise(jobs, "emit failed")
    /\ UNCHANGED jobsFrame

\* line 509
SetError ==
    /\ jobs.th = "except"
    /\ jobs' = [SetStatus("error") EXCEPT !.th = "except result"]
    /\ UNCHANGED jobsFrame

\* line 510
SetErrorResult ==
    /\ jobs.th = "except result"
    /\ jobs' = [SetResult(jobs, jobs.e[1]) EXCEPT !.th = "except emit"]
    /\ UNCHANGED jobsFrame

\* line 511: progress_emit(room, 100, f"Error: {e}"); if it raises, the
\* exception ends the thread
EmitError ==
    /\ jobs.th = "except emit"
    /\ jobs' = [jobs EXCEPT !.th = "end"]
    /\ UNCHANGED jobsFrame

BuildMixStep ==
    \/ SetRunning
    \/ EmitPreparing
    \/ TrackSource
    \/ AtempoPass
    \/ TrackFiltered
    \/ EmitMixing
    \/ Ffmpeg
    \/ SetDone
    \/ SetDoneResult
    \/ EmitDone
    \/ SetError
    \/ SetErrorResult
    \/ EmitError

NextJobs ==
    \/ Mix
    \/ JobStatus
    \/ SetRunning
    \/ EmitPreparing
    \/ TrackSource
    \/ AtempoPass
    \/ TrackFiltered
    \/ EmitMixing
    \/ Ffmpeg
    \/ SetDone
    \/ SetDoneResult
    \/ EmitDone
    \/ SetError
    \/ SetErrorResult
    \/ EmitError

\* the request is served and the thread, once started, keeps running; the
\* ffmpeg call returns
SpecJobs == InitJobs /\ [][NextJobs]_vars /\ WF_vars(Mix) /\ WF_vars(BuildMixStep)

\* C28: whenever a client reads the job, a job read as "done" has a
\* non-null result naming the mix file, and a job read as "error" has the
\* error message as its result.
C28_ReadJobHasItsResult ==
    \A k \in 1..Len(jobs.reads) :
        LET j == jobs.reads[k]
        IN  /\ j.status = "done" => j.result = jobs.out_id /\ j.result # <<>>
            /\ j.status = "error" => j.result = jobs.e /\ j.result # <<>>

Terminal == {"done", "error"}

LegalMoves == {<<"queued", "running">>, <<"running", "done">>, <<"running", "error">>}

\* C29: a job's status moves only queued -> running -> done or
\* queued -> running -> error, it eventually is done or error, and once
\* done or error it never changes again.
C29_JobLifecycle ==
    /\ [][jobs.JOBS # <<>> /\ jobs'.JOBS # <<>> /\ jobs'.JOBS[1].status # jobs.JOBS[1].status
              => /\ <<jobs.JOBS[1].status, jobs'.JOBS[1].status>> \in LegalMoves
                 /\ jobs.JOBS[1].status \notin Terminal]_vars
    /\ [](jobs.JOBS # <<>> => <>(jobs.JOBS # <<>> /\ jobs.JOBS[1].status \in Terminal))

(***************************************************************************)
(* atempo_chain (app.py lines 56-65), one action per pass of its loop.     *)
(* Values are exact fractions; tempo.chain holds the factor of each        *)
(* "atempo=..." entry, in order.                                           *)
(***************************************************************************)
MaxTempo == 40        \* largest numerator of an input value

\* inputs below, inside and above the range, over three denominators
TempoValues == {Rat(n, d) : n \in (-1)..MaxTempo, d \in {1, 7, 100}}

\* line 58 with the floor at 0.5
Floor_at_half(value) == RMax(Half, value)

\* line 58: v = max(0.05, float(value))
Floor(value) == RMax(Rat(1, 20), value)

\* line 61: step = 2.0 if v > 2.0 else 0.5
StepOf(v) == IF RLess(Two, v) THEN Two ELSE Half

\* line 63: v = v/step if step==2.0 else v/0.5
Divided(v, step) == IF step = Two THEN RMul(v, Half) ELSE RMul(v, Two)

tempoFrame == <<analysis, stretch, renderVars, earlyVars, labelcall, jobs>>

InitTempo ==
    /\ analysis = NoAnalysis /\ stretch = NoStretch /\ RenderIdle /\ EarlyIdle
    /\ labelcall = NoLabelCall /\ jobs = NoJobs
    /\ \E value \in TempoValues : tempo = [NoTempo EXCEPT !.pc = "called", !.value = value]

\* lines 58-59
ChainStart ==
    /\ tempo.pc = "called"
    /\ tempo' = [tempo EXCEPT !.pc = "loop", !.v = Floor(tempo.value), !.chain = <<>>]
    /\ UNCHANGED tempoFrame

\* one pass of the loop of lines 60-63
ChainPass ==
    /\ tempo.pc = "loop"
    /\ RLess(tempo.v, Half) \/ RLess(Two, tempo.v)
    /\ LET step == StepOf(tempo.v)
       IN  tempo' = [tempo EXCEPT !.chain = Append(@, step), !.v = Divided(@, step)]
    /\ UNCHANGED tempoFrame

\* lines 64-65
ChainReturn ==
    /\ tempo.pc = "loop"
    /\ ~(RLess(tempo.v, Half) \/ RLess(Two, tempo.v))
    /\ tempo' = [tempo EXCEPT !.pc = "done", !.chain = Append(@, tempo.v)]
    /\ UNCHANGED tempoFrame

NextTempo == ChainStart \/ ChainPass \/ ChainReturn

\* the call is synchronous: it keeps running
SpecTempo == InitTempo /\ [][NextTempo]_vars /\ WF_vars(NextTempo)

RECURSIVE Product(_, _)
Product(chain, k) == IF k > Len(chain) THEN RInt(1) ELSE RMul(chain[k], Product(chain, k + 1))

ChainIsRight ==
    tempo.pc = "done" =>
        /\ \A k \in 1..Len(tempo.chain) :
              RLeq(Rat(1, 2), tempo.chain[k]) /\ RLeq(tempo.chain[k], Rat(2, 1))
        /\ Product(tempo.chain, 1) =
              IF RLess(tempo.value, Rat(1, 20)) THEN Rat(1, 20) ELSE tempo.value

\* C30: atempo_chain terminates, every factor of the chain it returns lies
\* in [0.5, 2.0], and the product of the factors is max(0.05, value).
C30_ChainTerminatesWithProduct ==
    /\ <>(tempo.pc = "done")
    /\ []ChainIsRight

C30_Witness ==
    /\ tempo.pc = "done"
    /\ Len(tempo.chain) >= 5
    /\ RLess(tempo.value, Rat(1, 20))
    /\ tempo.chain[1] = Half
    /\ tempo.chain[Len(tempo.chain)] \notin {Half, Two, RInt(1)}
====
